---- MODULE Spec2Model ----
(***************************************************************************)
(* The Salt provisioner of packer-plugin-salt                               *)
(* (src/provisioner/salt/provisioner.go): Prepare, which decodes, defaults  *)
(* and validates the configuration, and Provision, which creates remote     *)
(* directories, uploads state and pillar content, runs salt-call and        *)
(* optionally cleans up.                                                    *)
(*                                                                         *)
(* A Go string is modelled as a sequence of one-character strings, so that  *)
(* strings.ToLower, strings.SplitN, strings.Replace, fmt.Sprintf and the    *)
(* path/filepath functions are computed, character by character, the way   *)
(* the code computes them.                                                  *)
(***************************************************************************)
EXTENDS Integers, Sequences, FiniteSets, TLC

VARIABLES
    goos,         \* runtime.GOOS of the machine Packer runs on (decides path/filepath)
    raws,         \* the raw configuration the host hands to Prepare
    config,       \* p.config
    stateFiles,   \* p.stateFiles
    pillarFiles,  \* p.pillarFiles
    prepares,     \* how many times the host has called Prepare
    errs,         \* the errors of the MultiError the last Prepare returned
    pc,           \* position of the host / of Provision
    idx,          \* loop index of uploadFiles / executeSalt
    log,          \* what was asked of the communicator, in order, with its outcome
    ui,           \* what was said to the Ui, in order
    result,       \* what Provision returned
    ctx           \* the context the host hands to Provision: "live" or "cancelled"

vars ==
    <<goos, raws, config, stateFiles, pillarFiles, prepares, errs, pc, idx, log, ui, result, ctx>>

(***************************************************************************)
(* Bounds of the model.                                                     *)
(***************************************************************************)
MaxFiles == 2
MaxEnv == 2
MaxPrepare == 2

(***************************************************************************)
(* Strings                                                                  *)
(***************************************************************************)
Upper == <<"A","B","C","D","E","F","G","H","I","J","K","L","M","N","O","P","Q","R","S","T","U","V","W","X","Y","Z">>
Lower == <<"a","b","c","d","e","f","g","h","i","j","k","l","m","n","o","p","q","r","s","t","u","v","w","x","y","z">>

ToLowerChar(c) ==
    IF \E i \in 1..Len(Upper) : Upper[i] = c
    THEN Lower[CHOOSE i \in 1..Len(Upper) : Upper[i] = c]
    ELSE c

\* strings.ToLower
ToLower(s) == [i \in 1..Len(s) |-> ToLowerChar(s[i])]

\* strings.HasPrefix(SubSeq(s, i, Len(s)), sub)
MatchAt(s, i, sub) ==
    /\ i + Len(sub) - 1 <= Len(s)
    /\ \A j \in 1..Len(sub) : s[i + j - 1] = sub[j]

\* strings.Index, 1-based; 0 when sub does not occur
Index(s, sub) ==
    LET at == {i \in 1..Len(s) : MatchAt(s, i, sub)}
    IN  IF at = {} THEN 0 ELSE CHOOSE i \in at : \A j \in at : i <= j

\* strings.SplitN(s, sep, 2)
SplitN2(s, sep) ==
    LET i == Index(s, sep)
    IN  IF i = 0 THEN <<s>>
        ELSE <<SubSeq(s, 1, i - 1), SubSeq(s, i + Len(sep), Len(s))>>

\* strings.ReplaceAll(s, old, new), old non-empty
RECURSIVE ReplaceAll(_, _, _)
ReplaceAll(s, old, new) ==
    LET i == Index(s, old)
    IN  IF i = 0 THEN s
        ELSE SubSeq(s, 1, i - 1) \o new \o ReplaceAll(SubSeq(s, i + Len(old), Len(s)), old, new)

\* what fmt.Sprintf appends for the arguments the format did not use
RECURSIVE ExtraArgs(_)
ExtraArgs(args) ==
    IF args = <<>> THEN <<>>
    ELSE <<"s","t","r","i","n","g","=">> \o Head(args)
         \o (IF Len(args) > 1 THEN <<","," ">> ELSE <<>>) \o ExtraArgs(Tail(args))

\* fmt.Sprintf(format, args...) for string arguments and the verb %s
RECURSIVE Sprintf(_, _)
Sprintf(format, args) ==
    LET i == Index(format, <<"%","s">>)
    IN  IF i = 0
        THEN format \o (IF args = <<>> THEN <<>>
                        ELSE <<"%","!","(","E","X","T","R","A"," ">> \o ExtraArgs(args) \o <<")">>)
        ELSE SubSeq(format, 1, i - 1)
             \o (IF args = <<>> THEN <<"%","!","s","(","M","I","S","S","I","N","G",")">> ELSE Head(args))
             \o Sprintf(SubSeq(format, i + 2, Len(format)), IF args = <<>> THEN <<>> ELSE Tail(args))

(***************************************************************************)
(* path/filepath, which depends on the operating system Packer runs on.     *)
(***************************************************************************)
IsPathSeparator(c) == c = "/" \/ (goos = "windows" /\ c = "\\")

Separator == IF goos = "windows" THEN "\\" ELSE "/"

\* length of filepath.VolumeName(path): a drive letter and a colon on windows
volumeNameLen(path) ==
    IF /\ goos = "windows"
       /\ Len(path) >= 2
       /\ path[2] = ":"
       /\ \E i \in 1..Len(Upper) : path[1] = Upper[i] \/ path[1] = Lower[i]
    THEN 2 ELSE 0

\* the elements of a path between its separators, empty ones dropped
RECURSIVE Elements(_)
Elements(path) ==
    LET seps == {i \in 1..Len(path) : IsPathSeparator(path[i])}
        i    == IF seps = {} THEN 0 ELSE CHOOSE k \in seps : \A j \in seps : k <= j
    IN  IF path = <<>> THEN <<>>
        ELSE IF i = 0 THEN <<path>>
             ELSE (IF i = 1 THEN <<>> ELSE <<SubSeq(path, 1, i - 1)>>)
                  \o Elements(SubSeq(path, i + 1, Len(path)))

\* the pass of Clean over the elements: "." is dropped, ".." removes the element before it
RECURSIVE CleanElements(_, _, _)
CleanElements(elems, out, rooted) ==
    IF elems = <<>> THEN out
    ELSE LET e == Head(elems)
         IN  IF e = <<".">> THEN CleanElements(Tail(elems), out, rooted)
             ELSE IF e = <<".",".">>
                  THEN IF out # <<>> /\ out[Len(out)] # <<".",".">>
                       THEN CleanElements(Tail(elems), SubSeq(out, 1, Len(out) - 1), rooted)
                       ELSE IF rooted THEN CleanElements(Tail(elems), out, rooted)
                            ELSE CleanElements(Tail(elems), Append(out, e), rooted)
                  ELSE CleanElements(Tail(elems), Append(out, e), rooted)

RECURSIVE JoinElements(_)
JoinElements(elems) ==
    IF elems = <<>> THEN <<>>
    ELSE Head(elems) \o (IF Len(elems) > 1 THEN <<Separator>> ELSE <<>>) \o JoinElements(Tail(elems))

\* filepath.Clean
Clean(path) ==
    LET n      == volumeNameLen(path)
        vol    == SubSeq(path, 1, n)
        rest   == SubSeq(path, n + 1, Len(path))
        rooted == rest # <<>> /\ IsPathSeparator(rest[1])
        body   == JoinElements(CleanElements(Elements(rest), <<>>, rooted))
    IN  IF rooted THEN vol \o <<Separator>> \o body
        ELSE IF body = <<>> THEN vol \o <<".">>
             ELSE vol \o body

\* filepath.Join(a, b)
Join(a, b) ==
    IF a = <<>> /\ b = <<>> THEN <<>>
    ELSE IF a = <<>> THEN Clean(b)
         ELSE IF b = <<>> THEN Clean(a)
              ELSE Clean(a \o <<Separator>> \o b)

\* filepath.Dir
Dir(path) ==
    LET n    == volumeNameLen(path)
        seps == {i \in (n + 1)..Len(path) : IsPathSeparator(path[i])}
        last == IF seps = {} THEN n ELSE CHOOSE i \in seps : \A j \in seps : j <= i
    IN  SubSeq(path, 1, n) \o Clean(SubSeq(path, n + 1, last))

\* filepath.ToSlash
ToSlash(path) == [i \in 1..Len(path) |-> IF path[i] = Separator THEN "/" ELSE path[i]]

\* filepath.IsAbs
IsAbs(path) ==
    LET n == volumeNameLen(path)
    IN  /\ Len(path) > n
        /\ IsPathSeparator(path[n + 1])
        /\ (goos = "windows" => n > 0)

\* the working directory of the Packer process
Getwd == IF goos = "windows" THEN <<"C",":","\\","w">> ELSE <<"/","w">>

\* filepath.Abs
Abs(path) == IF IsAbs(path) THEN Clean(path) ELSE Join(Getwd, path)


\* strconv.Itoa for n >= 0, as the verb %d prints an exit status
RECURSIVE Itoa(_)
Itoa(n) ==
    LET digit == <<"0","1","2","3","4","5","6","7","8","9">>[(n % 10) + 1]
    IN  IF n < 10 THEN <<digit>> ELSE Itoa(n \div 10) \o <<digit>>

(***************************************************************************)
(* The lookup tables, keyed by "<name>_<target os>".                        *)
(***************************************************************************)
saltConfigMap ==
       (<<"c","o","n","f","i","g","S","t","a","t","e","D","i","r","_","l","i","n","u","x">>    :> <<"/","t","m","p","/","p","a","c","k","e","r","-","p","r","o","v","i","s","i","o","n","e","r","-","s","a","l","t">>)
    @@ (<<"c","o","n","f","i","g","S","t","a","t","e","D","i","r","_","w","i","n","d","o","w","s">>  :> <<"C",":","/","W","i","n","d","o","w","s","/","T","e","m","p","/","p","a","c","k","e","r","-","p","r","o","v","i","s","i","o","n","e","r","-","s","a","l","t">>)
    @@ (<<"c","o","n","f","i","g","P","i","l","l","a","r","D","i","r","_","l","i","n","u","x">>   :> <<"/","t","m","p","/","p","a","c","k","e","r","-","p","r","o","v","i","s","i","o","n","e","r","-","s","a","l","t","-","p","i","l","l","a","r">>)
    @@ (<<"c","o","n","f","i","g","P","i","l","l","a","r","D","i","r","_","w","i","n","d","o","w","s">> :> <<"C",":","/","W","i","n","d","o","w","s","/","T","e","m","p","/","p","a","c","k","e","r","-","p","r","o","v","i","s","i","o","n","e","r","-","s","a","l","t","-","p","i","l","l","a","r">>)
    @@ (<<"c","o","n","f","i","g","E","n","v","F","o","r","m","a","t","_","l","i","n","u","x">>   :> <<"%","s","=","'","%","s","'"," ">>)
    @@ (<<"c","o","n","f","i","g","E","n","v","F","o","r","m","a","t","_","w","i","n","d","o","w","s">> :> <<"%","s","=","'","%","s","'"," ">>)

saltCommandMap ==
       (<<"c","m","d","C","r","e","a","t","e","D","i","r","_","l","i","n","u","x">>        :> <<"m","k","d","i","r"," ","-","p"," ","'","%","s","'">>)
    @@ (<<"c","m","d","C","r","e","a","t","e","D","i","r","_","w","i","n","d","o","w","s">>      :> <<"P","o","w","e","r","S","h","e","l","l"," ","-","E","x","e","c","u","t","i","o","n","P","o","l","i","c","y"," ","B","y","p","a","s","s"," ","-","O","u","t","p","u","t","F","o","r","m","a","t"," ","T","e","x","t"," ","-","C","o","m","m","a","n","d"," ","{","N","e","w","-","I","t","e","m"," ","-","I","t","e","m","T","y","p","e"," ","D","i","r","e","c","t","o","r","y"," ","-","P","a","t","h"," ","%","s"," ","-","F","o","r","c","e","}">>)
    @@ (<<"c","m","d","D","e","l","e","t","e","D","i","r","_","l","i","n","u","x">>        :> <<"r","m"," ","-","r","f"," ","'","%","s","'">>)
    @@ (<<"c","m","d","D","e","l","e","t","e","D","i","r","_","w","i","n","d","o","w","s">>      :> <<"P","o","w","e","r","S","h","e","l","l"," ","-","E","x","e","c","u","t","i","o","n","P","o","l","i","c","y"," ","B","y","p","a","s","s"," ","-","O","u","t","p","u","t","F","o","r","m","a","t"," ","T","e","x","t"," ","-","C","o","m","m","a","n","d"," ","{","R","e","m","o","v","e","-","I","t","e","m"," ","-","R","e","c","u","r","s","e"," ","-","F","o","r","c","e"," ","%","s","}">>)
    @@ (<<"c","m","d","S","a","l","t","C","a","l","l","_","l","i","n","u","x">>         :> <<"s","u","d","o"," ","%","s","s","a","l","t","-","c","a","l","l"," ","-","-","l","o","c","a","l"," ","-","-","f","i","l","e","-","r","o","o","t","=","%","s"," ","s","t","a","t","e",".","a","p","p","l","y"," ","%","s">>)
    @@ (<<"c","m","d","S","a","l","t","C","a","l","l","_","w","i","n","d","o","w","s">>       :> <<"%","s","s","a","l","t","-","c","a","l","l"," ","-","-","l","o","c","a","l"," ","-","-","f","i","l","e","-","r","o","o","t","=","%","s"," ","s","t","a","t","e",".","a","p","p","l","y"," ","%","s">>)
    @@ (<<"c","m","d","S","a","l","t","C","a","l","l","P","i","l","l","a","r","_","l","i","n","u","x">>   :> <<"s","u","d","o"," ","%","s","s","a","l","t","-","c","a","l","l"," ","-","-","l","o","c","a","l"," ","-","-","f","i","l","e","-","r","o","o","t","=","%","s"," ","-","-","p","i","l","l","a","r","-","r","o","o","t","=","%","s"," ","s","t","a","t","e",".","a","p","p","l","y"," ","%","s">>)
    @@ (<<"c","m","d","S","a","l","t","C","a","l","l","P","i","l","l","a","r","_","w","i","n","d","o","w","s">> :> <<"%","s","s","a","l","t","-","c","a","l","l"," ","-","-","l","o","c","a","l"," ","-","-","f","i","l","e","-","r","o","o","t","=","%","s"," ","-","-","p","i","l","l","a","r","-","r","o","o","t","=","%","s"," ","s","t","a","t","e",".","a","p","p","l","y"," ","%","s">>)

\* a Go map read: the zero value "" when the key is absent
MapGet(m, k) == IF k \in DOMAIN m THEN m[k] ELSE <<>>

\* p.getCommand(valueName), reading p.config.TargetOS from c
getCommand(c, valueName) == MapGet(saltCommandMap, valueName \o <<"_">> \o c.TargetOS)

\* p.getConfig(valueName), reading p.config.TargetOS from c
getConfig(c, valueName) == MapGet(saltConfigMap, valueName \o <<"_">> \o c.TargetOS)

(***************************************************************************)
(* The local file system Prepare looks at with os.Stat.                     *)
(***************************************************************************)
LocalFS ==
       (<<"a",".","s","l","s">>   :> "file")
    @@ (<<"d","/","b",".","s","l","s">> :> "file")
    @@ (<<"p",".","s","l","s">>   :> "file")
    @@ (<<"d">>       :> "dir")
    @@ (<<"p","d","/">>     :> "dir")
    @@ (<<"v",".","s","l","s",".","d","/","a",".","s","l","s">> :> "file")
    @@ (<<"s","\\","b",".","s","l","s">> :> "file")
    @@ (<<"p","d","\\">> :> "dir")
    @@ (<<".",".","/","x",".","s","l","s">> :> "file")
    @@ (<<"/","e","t","c","/","a",".","s","l","s">> :> "file")

\* os.Stat(path): "file", "dir", or "missing" when Stat returns an error
Stat(path) == IF path \in DOMAIN LocalFS THEN LocalFS[path] ELSE "missing"

\* the text of the error os.Stat returns
StatError(path) == <<"s","t","a","t"," ">> \o path \o <<":"," ","n","o"," ","s","u","c","h"," ","f","i","l","e"," ","o","r"," ","d","i","r","e","c","t","o","r","y">>

(***************************************************************************)
(* Prepare.  An error is its message; a returned error is a sequence of 0   *)
(* (nil) or more messages.                                                  *)
(***************************************************************************)
validateDirConfig(path, cfg) ==
    IF Stat(path) = "missing"
    THEN <<Sprintf(<<"%","s",":"," ","%","s"," ","i","n","v","a","l","i","d",":"," ","%","s">>, <<cfg, path, StatError(path)>>)>>
    ELSE IF Stat(path) # "dir"
         THEN <<Sprintf(<<"%","s",":"," ","%","s"," ","m","u","s","t"," ","b","e"," ","a"," ","d","i","r","e","c","t","o","r","y">>, <<cfg, path>>)>>
         ELSE <<>>

\* a faulty variant of validateFileConfig: a directory passes for a file
validateFileConfig_NoDirCheck(path, cfg) ==
    IF Stat(path) = "missing"
    THEN <<Sprintf(<<"%","s",":"," ","%","s"," ","i","n","v","a","l","i","d",":"," ","%","s">>, <<cfg, path, StatError(path)>>)>>
    ELSE <<>>

validateFileConfig(path, cfg) ==
    IF Stat(path) = "missing"
    THEN <<Sprintf(<<"%","s",":"," ","%","s"," ","i","n","v","a","l","i","d",":"," ","%","s">>, <<cfg, path, StatError(path)>>)>>
    ELSE IF Stat(path) = "dir"
         THEN <<Sprintf(<<"%","s",":"," ","%","s"," ","m","u","s","t"," ","b","e"," ","a"," ","f","i","l","e">>, <<cfg, path>>)>>
         ELSE <<>>

ZeroConfig ==
    [TargetOS |-> <<>>, StateFiles |-> <<>>, StateTree |-> <<>>, StagingDir |-> <<>>,
     StateDir |-> <<>>, PillarFiles |-> <<>>, PillarTree |-> <<>>, PillarDir |-> <<>>,
     Clean |-> FALSE, EnvVars |-> <<>>, EnvVarFormat |-> <<>>]

\* config.Decode(&p.config, ..., raws...): the options the template sets are
\* written into p.config, the others keep the value p.config has
Decode(c, raw) ==
    [TargetOS     |-> IF raw.TargetOS # <<>> THEN raw.TargetOS ELSE c.TargetOS,
     StateFiles   |-> IF raw.StateFiles # <<>> THEN raw.StateFiles ELSE c.StateFiles,
     StateTree    |-> IF raw.StateTree # <<>> THEN raw.StateTree ELSE c.StateTree,
     StagingDir   |-> IF raw.StagingDir # <<>> THEN raw.StagingDir ELSE c.StagingDir,
     StateDir     |-> IF raw.StateDir # <<>> THEN raw.StateDir ELSE c.StateDir,
     PillarFiles  |-> IF raw.PillarFiles # <<>> THEN raw.PillarFiles ELSE c.PillarFiles,
     PillarTree   |-> IF raw.PillarTree # <<>> THEN raw.PillarTree ELSE c.PillarTree,
     PillarDir    |-> IF raw.PillarDir # <<>> THEN raw.PillarDir ELSE c.PillarDir,
     Clean        |-> IF raw.Clean THEN TRUE ELSE c.Clean,
     EnvVars      |-> IF raw.EnvVars # <<>> THEN raw.EnvVars ELSE c.EnvVars,
     EnvVarFormat |-> IF raw.EnvVarFormat # <<>> THEN raw.EnvVarFormat ELSE c.EnvVarFormat]

\* "Set default values": the target OS
DefaultTargetOS(c) ==
    [c EXCEPT !.TargetOS = IF c.TargetOS = <<>> THEN <<"l","i","n","u","x">> ELSE ToLower(c.TargetOS)]

\* "Set default values": the environment format and the two remote directories
DefaultDirs(c) ==
    [c EXCEPT
        !.EnvVarFormat = IF c.EnvVarFormat = <<>> THEN getConfig(c, <<"c","o","n","f","i","g","E","n","v","F","o","r","m","a","t">>) ELSE @,
        !.StateDir     = IF c.StateDir = <<>>
                         THEN (IF c.StagingDir # <<>> THEN c.StagingDir
                               ELSE getConfig(c, <<"c","o","n","f","i","g","S","t","a","t","e","D","i","r">>))
                         ELSE @,
        !.PillarDir    = IF c.PillarDir = <<>> THEN getConfig(c, <<"c","o","n","f","i","g","P","i","l","l","a","r","D","i","r">>) ELSE @]

SetDefaults(c) == DefaultDirs(DefaultTargetOS(c))

\* a faulty variant of ExclusiveErrors: the test for neither state option is missing
ExclusiveErrors_NoNeither(c) ==
       (IF Len(c.StateFiles) # 0 /\ c.StateTree # <<>>
        THEN <<<<"e","i","t","h","e","r"," ","s","t","a","t","e","_","f","i","l","e","s"," ","o","r"," ","s","t","a","t","e","_","t","r","e","e"," ","c","a","n"," ","b","e"," ","s","p","e","c","i","f","i","e","d",","," ","n","o","t"," ","b","o","t","h">>>> ELSE <<>>)
    \o (IF Len(c.PillarFiles) # 0 /\ c.PillarTree # <<>>
        THEN <<<<"e","i","t","h","e","r"," ","p","i","l","l","a","r","_","f","i","l","e","s"," ","o","r"," ","p","i","l","l","a","r","_","t","r","e","e"," ","c","a","n"," ","b","e"," ","s","p","e","c","i","f","i","e","d",","," ","n","o","t"," ","b","o","t","h">>>> ELSE <<>>)

\* a faulty variant of ExclusiveErrors: the pillar options are tested only when the
\* state options passed
ExclusiveErrors_PillarNested(c) ==
    IF Len(c.StateFiles) # 0 /\ c.StateTree # <<>>
    THEN <<<<"e","i","t","h","e","r"," ","s","t","a","t","e","_","f","i","l","e","s"," ","o","r"," ","s","t","a","t","e","_","t","r","e","e"," ","c","a","n"," ","b","e"," ","s","p","e","c","i","f","i","e","d",","," ","n","o","t"," ","b","o","t","h">>>>
    ELSE IF Len(c.StateFiles) = 0 /\ c.StateTree = <<>>
         THEN <<<<"e","i","t","h","e","r"," ","s","t","a","t","e","_","f","i","l","e","s"," ","o","r"," ","s","t","a","t","e","_","t","r","e","e"," ","m","u","s","t"," ","b","e"," ","s","p","e","c","i","f","i","e","d">>>>
         ELSE IF Len(c.PillarFiles) # 0 /\ c.PillarTree # <<>>
              THEN <<<<"e","i","t","h","e","r"," ","p","i","l","l","a","r","_","f","i","l","e","s"," ","o","r"," ","p","i","l","l","a","r","_","t","r","e","e"," ","c","a","n"," ","b","e"," ","s","p","e","c","i","f","i","e","d",","," ","n","o","t"," ","b","o","t","h">>>>
              ELSE <<>>

\* "Validate exclusive options"
ExclusiveErrors(c) ==
       (IF Len(c.StateFiles) # 0 /\ c.StateTree # <<>>
        THEN <<<<"e","i","t","h","e","r"," ","s","t","a","t","e","_","f","i","l","e","s"," ","o","r"," ","s","t","a","t","e","_","t","r","e","e"," ","c","a","n"," ","b","e"," ","s","p","e","c","i","f","i","e","d",","," ","n","o","t"," ","b","o","t","h">>>> ELSE <<>>)
    \o (IF Len(c.StateFiles) = 0 /\ c.StateTree = <<>>
        THEN <<<<"e","i","t","h","e","r"," ","s","t","a","t","e","_","f","i","l","e","s"," ","o","r"," ","s","t","a","t","e","_","t","r","e","e"," ","m","u","s","t"," ","b","e"," ","s","p","e","c","i","f","i","e","d">>>> ELSE <<>>)
    \o (IF Len(c.PillarFiles) # 0 /\ c.PillarTree # <<>>
        THEN <<<<"e","i","t","h","e","r"," ","p","i","l","l","a","r","_","f","i","l","e","s"," ","o","r"," ","p","i","l","l","a","r","_","t","r","e","e"," ","c","a","n"," ","b","e"," ","s","p","e","c","i","f","i","e","d",","," ","n","o","t"," ","b","o","t","h">>>> ELSE <<>>)

\* a faulty variant of EnvVarError: an empty key is let through
EnvVarError_EmptyKey(kv) ==
    IF Len(SplitN2(kv, <<"=">>)) # 2
    THEN <<Sprintf(<<"e","n","v","i","r","o","n","m","e","n","t"," ","v","a","r","i","a","b","l","e"," ","n","o","t"," ","i","n"," ","f","o","r","m","a","t"," ","'","k","e","y","=","v","a","l","u","e","'",":"," ","%","s">>, <<kv>>)>>
    ELSE <<>>

\* the check of one environment_vars entry
EnvVarError(kv) ==
    LET vs == SplitN2(kv, <<"=">>)
    IN  IF Len(vs) # 2 \/ vs[1] = <<>>
        THEN <<Sprintf(<<"e","n","v","i","r","o","n","m","e","n","t"," ","v","a","r","i","a","b","l","e"," ","n","o","t"," ","i","n"," ","f","o","r","m","a","t"," ","'","k","e","y","=","v","a","l","u","e","'",":"," ","%","s">>, <<kv>>)>>
        ELSE <<>>

\* "Validate any supplied environment variables"
RECURSIVE EnvVarErrors(_)
EnvVarErrors(envVars) ==
    IF envVars = <<>> THEN <<>>
    ELSE EnvVarError(Head(envVars)) \o EnvVarErrors(Tail(envVars))

\* "Validate supplied arrays of files": the errors
RECURSIVE FileErrors(_, _)
FileErrors(files, cfg) ==
    IF files = <<>> THEN <<>>
    ELSE validateFileConfig(Head(files), cfg) \o FileErrors(Tail(files), cfg)

\* "Validate supplied arrays of files": the files appended to the validated list
RECURSIVE ValidFiles(_, _)
ValidFiles(files, cfg) ==
    IF files = <<>> THEN <<>>
    ELSE (IF validateFileConfig(Head(files), cfg) = <<>> THEN <<Head(files)>> ELSE <<>>)
         \o ValidFiles(Tail(files), cfg)

\* "Validate supplied file trees"
TreeErrors(c) ==
       (IF c.StateTree # <<>> THEN validateDirConfig(c.StateTree, <<"s","t","a","t","e","_","t","r","e","e">>) ELSE <<>>)
    \o (IF c.PillarTree # <<>> THEN validateDirConfig(c.PillarTree, <<"p","i","l","l","a","r","_","t","r","e","e">>) ELSE <<>>)

\* a faulty variant of ValidationErrors: Prepare stops at the first error
ValidationErrors_FirstOnly(c) ==
    LET all == ExclusiveErrors(c) \o EnvVarErrors(c.EnvVars)
               \o FileErrors(c.StateFiles, <<"s","t","a","t","e","_","f","i","l","e","s">>)
               \o FileErrors(c.PillarFiles, <<"p","i","l","l","a","r","_","f","i","l","e","s">>) \o TreeErrors(c)
    IN  IF all = <<>> THEN <<>> ELSE <<all[1]>>

\* everything Prepare appends to errs, in the order it appends
ValidationErrors(c) ==
       ExclusiveErrors(c)
    \o EnvVarErrors(c.EnvVars)
    \o FileErrors(c.StateFiles, <<"s","t","a","t","e","_","f","i","l","e","s">>)
    \o FileErrors(c.PillarFiles, <<"p","i","l","l","a","r","_","f","i","l","e","s">>)
    \o TreeErrors(c)

\* a faulty variant of ReturnedErrors: the collected errors are dropped
ReturnedErrors_Nil(es) == <<>>

\* what Prepare returns for the collected errs
ReturnedErrors(es) == IF Len(es) > 0 THEN es ELSE <<>>

\* the error of config.Decode for a template that does not decode
DecodeError == <<<<"1"," ","e","r","r","o","r","(","s",")"," ","d","e","c","o","d","i","n","g">>>>


(***************************************************************************)
(* The environment variables of the salt-call command line.                 *)
(***************************************************************************)
\* the printable ASCII characters in byte order (the grave accent, which no input uses, left out)
Ascii ==
    <<" ","!","\"","#","$","%","&","'","(",")","*","+",",","-",".","/",
      "0","1","2","3","4","5","6","7","8","9",":",";","<","=",">","?",
      "@","A","B","C","D","E","F","G","H","I","J","K","L","M","N","O",
      "P","Q","R","S","T","U","V","W","X","Y","Z","[","\\","]","^","_",
      "a","b","c","d","e","f","g","h","i","j","k","l","m","n","o",
      "p","q","r","s","t","u","v","w","x","y","z","{","|","}","~">>

Ord(c) == CHOOSE i \in 1..Len(Ascii) : Ascii[i] = c

\* a < b for Go strings: byte-wise lexicographic order
RECURSIVE StringLess(_, _)
StringLess(a, b) ==
    IF b = <<>> THEN FALSE
    ELSE IF a = <<>> THEN TRUE
         ELSE IF a[1] # b[1] THEN Ord(a[1]) < Ord(b[1])
              ELSE StringLess(Tail(a), Tail(b))

\* a faulty variant of SortStrings: the greatest key comes first
RECURSIVE SortStrings_Descending(_)
SortStrings_Descending(keys) ==
    IF keys = {} THEN <<>>
    ELSE LET m == CHOOSE k \in keys : \A o \in keys : o = k \/ StringLess(o, k)
         IN  <<m>> \o SortStrings_Descending(keys \ {m})

\* sort.Strings over the keys of a map
RECURSIVE SortStrings(_)
SortStrings(keys) ==
    IF keys = {} THEN <<>>
    ELSE LET m == CHOOSE k \in keys : \A o \in keys : o = k \/ StringLess(k, o)
         IN  <<m>> \o SortStrings(keys \ {m})

\* a faulty variant of escapeValue: a backslash is put before each single quote
escapeValue_Backslash(value) == ReplaceAll(value, <<"'">>, <<"\\","'">>)

\* the replacement of a single quote, and strings.Replace of every single quote by it
quoteEscape == <<"'","\"","'","\"","'">>
escapeValue(value) == ReplaceAll(value, <<"'">>, quoteEscape)

\* a faulty variant of escapedEnvVars: the first entry of a key keeps its value
escapedEnvVars_FirstWins(envVars) ==
    LET keys == {SplitN2(envVars[i], <<"=">>)[1] : i \in 1..Len(envVars)}
        first(k) == CHOOSE i \in 1..Len(envVars) :
                       /\ SplitN2(envVars[i], <<"=">>)[1] = k
                       /\ \A j \in 1..(i - 1) : SplitN2(envVars[j], <<"=">>)[1] # k
    IN  [k \in keys |-> escapeValue(SplitN2(envVars[first(k)], <<"=">>)[2])]

\* the map p.escapeEnvVars builds: a later entry overwrites an earlier one of the same key
escapedEnvVars(envVars) ==
    LET keys == {SplitN2(envVars[i], <<"=">>)[1] : i \in 1..Len(envVars)}
        last(k) == CHOOSE i \in 1..Len(envVars) :
                      /\ SplitN2(envVars[i], <<"=">>)[1] = k
                      /\ \A j \in (i + 1)..Len(envVars) : SplitN2(envVars[j], <<"=">>)[1] # k
    IN  [k \in keys |-> escapeValue(SplitN2(envVars[last(k)], <<"=">>)[2])]

\* a faulty variant of escapedEnvKeys: the keys in the order of their first listing
escapedEnvKeys_Listed(envVars) ==
    LET key(i) == SplitN2(envVars[i], <<"=">>)[1]
        first == {i \in 1..Len(envVars) : \A j \in 1..(i - 1) : key(j) # key(i)}
        nth(r) == CHOOSE i \in first : Cardinality({j \in first : j <= i}) = r
    IN  [r \in 1..Cardinality(first) |-> key(nth(r))]

\* the keys p.escapeEnvVars returns
escapedEnvKeys(envVars) == SortStrings(DOMAIN escapedEnvVars(envVars))

RECURSIVE flatten(_, _, _)
flatten(keys, envVars, format) ==
    IF keys = <<>> THEN <<>>
    ELSE Sprintf(format, <<Head(keys), envVars[Head(keys)]>>) \o flatten(Tail(keys), envVars, format)

\* p.createFlattenedEnvVars(), reading p.config from c
createFlattenedEnvVars(c) ==
    flatten(escapedEnvKeys(c.EnvVars), escapedEnvVars(c.EnvVars), c.EnvVarFormat)

(***************************************************************************)
(* The communicator.  A remote command either fails in transport or ends    *)
(* with an exit status; a transfer either fails or succeeds.                *)
(***************************************************************************)
ExitStatuses == {0, 1, 42, 127}

RunOutcomes ==
    {[transport |-> TRUE, status |-> 0]} \cup {[transport |-> FALSE, status |-> s] : s \in ExitStatuses}

TransferOutcomes == {[transport |-> b, status |-> 0] : b \in BOOLEAN}

Succeeded(out) == ~out.transport /\ out.status = 0

\* the error a failing communicator returns
CommError == <<"c","o","n","n","e","c","t","i","o","n"," ","l","o","s","t">>

\* one request to the communicator
Entry(op, cmd, dst, src, name, pillar, out) ==
    [op |-> op, cmd |-> cmd, dst |-> dst, src |-> src, name |-> name, pillar |-> pillar, out |-> out]

\* p.createDir(ui, comm, dir) when the command ends as out
createDir(dir, out) ==
    [entry |-> Entry("createDir", Sprintf(<<"m","k","d","i","r"," ","-","p"," ","'","%","s","'">>, <<dir>>), dir, <<>>, <<>>, <<>>, out),
     say   |-> Sprintf(<<"C","r","e","a","t","i","n","g"," ","d","i","r","e","c","t","o","r","y",":"," ","%","s">>, <<dir>>),
     err   |-> IF out.transport THEN <<CommError>>
               ELSE IF out.status # 0 THEN <<<<"n","o","n","-","z","e","r","o"," ","e","x","i","t"," ","s","t","a","t","u","s"," ","w","h","i","l","e"," ","c","r","e","a","t","i","n","g"," ","d","i","r","e","c","t","o","r","y">>>>
                    ELSE <<>>]

\* p.removeDir(ui, comm, dir) when the command ends as out
removeDir(dir, out) ==
    [entry |-> Entry("removeDir", Sprintf(<<"r","m"," ","-","r","f"," ","'","%","s","'">>, <<dir>>), dir, <<>>, <<>>, <<>>, out),
     say   |-> Sprintf(<<"R","e","m","o","v","i","n","g"," ","d","i","r","e","c","t","o","r","y",":"," ","%","s">>, <<dir>>),
     err   |-> <<>>]

\* a faulty variant of uploadDirSource: the slash is appended whatever the path ends in
uploadDirSource_Always(src) == src \o <<"/">>

\* the source path p.uploadDir hands to comm.UploadDir
uploadDirSource(src) == IF src[Len(src)] # "/" THEN src \o <<"/">> ELSE src

\* a faulty variant of remoteDir: the base directory whatever the file is
remoteDir_Base(uploadDir, uploadFile) == ToSlash(uploadDir)

\* remoteDir and remoteFile of p.uploadSingleFile
remoteDir(uploadDir, uploadFile) == ToSlash(Join(uploadDir, Dir(uploadFile)))
remoteFile(uploadDir, uploadFile) == ToSlash(Join(uploadDir, uploadFile))

\* stateName of p.executeSaltState
stateName(stateFile) == ReplaceAll(stateFile, <<".","s","l","s">>, <<>>)

\* whether p.executeSaltState takes the template and the arguments with a pillar root
usesPillar(c) == Len(c.PillarTree) > 0

\* the command of p.executeSaltState
saltCommand(c, envVars, stateFile) ==
    IF usesPillar(c)
    THEN Sprintf(getCommand(c, <<"c","m","d","S","a","l","t","C","a","l","l","P","i","l","l","a","r">>), <<envVars, c.StateDir, c.PillarDir, stateName(stateFile)>>)
    ELSE Sprintf(getCommand(c, <<"c","m","d","S","a","l","t","C","a","l","l">>), <<envVars, c.StateDir, stateName(stateFile)>>)

\* a faulty variant of executeSaltState: exit status 127 is reported like any other
executeSaltState_No127(c, envVars, stateFile, out) ==
    LET command == saltCommand(c, envVars, stateFile)
    IN  [entry |-> Entry("apply", command, c.StateDir, stateFile, stateName(stateFile),
                         IF usesPillar(c) THEN c.PillarDir ELSE <<>>, out),
         say   |-> Sprintf(<<"E","x","e","c","u","t","i","n","g"," ","S","a","l","t",":"," ","%","s">>, <<command>>),
         err   |-> IF out.transport THEN <<CommError>>
                   ELSE IF out.status # 0
                        THEN <<<<"n","o","n","-","z","e","r","o"," ","e","x","i","t"," ","s","t","a","t","u","s",":"," ">> \o Itoa(out.status)>>
                        ELSE <<>>]

\* p.executeSaltState(ui, comm, envVars, stateFile) when the command ends as out
executeSaltState(c, envVars, stateFile, out) ==
    LET command == saltCommand(c, envVars, stateFile)
    IN  [entry |-> Entry("apply", command, c.StateDir, stateFile, stateName(stateFile),
                         IF usesPillar(c) THEN c.PillarDir ELSE <<>>, out),
         say   |-> Sprintf(<<"E","x","e","c","u","t","i","n","g"," ","S","a","l","t",":"," ","%","s">>, <<command>>),
         err   |-> IF out.transport THEN <<CommError>>
                   ELSE IF out.status # 0
                        THEN IF out.status = 127
                             THEN <<Sprintf(<<"%","s"," ","c","o","u","l","d"," ","n","o","t"," ","b","e"," ","f","o","u","n","d",","," ","v","e","r","i","f","y"," ","t","h","a","t"," ","i","t"," ","i","s"," ","a","v","a","i","l","a","b","l","e"," ","o","n"," ","t","h","e"," ","p","a","t","h"," ","a","f","t","e","r"," ","c","o","n","n","e","c","t","i","n","g"," ","t","o"," ","t","h","e"," ","m","a","c","h","i","n","e">>, <<command>>)>>
                             ELSE <<<<"n","o","n","-","z","e","r","o"," ","e","x","i","t"," ","s","t","a","t","u","s",":"," ">> \o Itoa(out.status)>>
                        ELSE <<>>]

\* fmt.Errorf(format, err) around a non-nil error, nil kept nil
Wrap(format, err) == IF err = <<>> THEN <<>> ELSE <<Sprintf(format, <<err[1]>>)>>


(***************************************************************************)
(* The configurations the host may hand to Prepare.                         *)
(***************************************************************************)
SeqsUpTo(S, n) == UNION {[1..k -> S] : k \in 0..n}

\* a template that sets nothing
ZeroRaws == [ZeroConfig EXCEPT !.Clean = FALSE] @@ [undecodable |-> FALSE]

\* target_os values: empty, the two supported ones and the documented family names in
\* several letter cases, and names that are in no list
TargetOSChoices ==
    {<<>>, <<"l","i","n","u","x">>, <<"L","i","n","u","x">>, <<"L","I","N","U","X">>, <<"w","i","n","d","o","w","s">>, <<"W","i","n","d","o","w","s">>, <<"W","I","N","D","O","W","S">>, <<"w","I","n","D","o","W","s">>,
     <<"a","m","a","z","o","n">>, <<"a","r","c","h">>, <<"c","e","n","t","o","s">>, <<"d","e","b","i","a","n">>, <<"f","e","d","o","r","a">>, <<"f","r","e","e","b","s","d">>, <<"m","a","c","o","s">>,
     <<"o","r","a","c","l","e">>, <<"p","h","o","t","o","n">>, <<"r","e","d","h","a","t">>, <<"s","u","s","e">>, <<"u","b","u","n","t","u">>, <<"U","b","u","n","t","u">>, <<"D","E","B","I","A","N">>,
     <<"s","o","l","a","r","i","s">>, <<"w","i","n">>}

\* configurations that exercise the validation rules together
ValidationInputs ==
    {[goos |-> "linux",
      raws |-> [ZeroRaws EXCEPT !.StateFiles = sf, !.StateTree = st, !.PillarFiles = pf,
                                !.PillarTree = pt, !.EnvVars = ev]] :
        sf \in SeqsUpTo({<<"a",".","s","l","s">>, <<"d">>, <<"x",".","s","l","s">>}, MaxFiles),
        st \in {<<>>, <<"d">>, <<"a",".","s","l","s">>},
        pf \in SeqsUpTo({<<"p",".","s","l","s">>, <<"y",".","s","l","s">>}, MaxFiles),
        pt \in {<<>>, <<"p","d","/">>, <<"n","o","p","e">>},
        ev \in {<<>>, <<<<"A","=","1">>>>, <<<<"N">>>>}}

\* configurations that exercise the environment variables
EnvChoices == {<<"A","=","1">>, <<"A","=","2">>, <<"B","=","x","=","y">>, <<"C","=">>, <<"=","v">>, <<"N">>, <<>>, <<"Q","=","i","'","m">>,
     <<"Q","=","'","\"","'","\"","'">>, <<"Q","=","'","'">>, <<"Q","=","\"","'","\"">>}

EnvInputs ==
    {[goos |-> "linux",
      raws |-> [ZeroRaws EXCEPT !.StateTree = <<"d">>, !.EnvVars = ev]] :
        ev \in SeqsUpTo(EnvChoices, MaxEnv)}

\* configurations that exercise the target OS and the remote directories
OSInputs ==
    {[goos |-> "linux",
      raws |-> [ZeroRaws EXCEPT !.TargetOS = os, !.StateTree = <<"d">>, !.StateDir = sd,
                                !.StagingDir = gd, !.PillarDir = pd]] :
        os \in TargetOSChoices,
        sd \in {<<>>, <<"/","s","r","v","/","s">>},
        gd \in {<<>>, <<"/","s","r","v","/","g">>},
        pd \in {<<>>, <<"/","s","r","v","/","p">>}}

\* valid configurations with no state file listed twice: every mode for a Linux
\* target from a Linux host, where environment variables go with the runs that
\* clean up, and the runs without clean-up and pillar tree for the other hosts and
\* targets
RunInputs ==
    LET all ==
            {[goos |-> g,
              raws |-> [ZeroRaws EXCEPT !.TargetOS = os, !.StateFiles = sel.sf, !.StateTree = sel.st,
                                        !.PillarFiles = pil.pf, !.PillarTree = pil.pt,
                                        !.Clean = cl, !.EnvVars = ev]] :
                g \in {"linux", "windows"},
                os \in {<<>>, <<"w","i","n","d","o","w","s">>},
                sel \in {[sf |-> f, st |-> <<>>] :
                            f \in {q \in SeqsUpTo({<<"a",".","s","l","s">>, <<"d","/","b",".","s","l","s">>}, MaxFiles) \ {<<>>} :
                                      \A i, j \in 1..Len(q) : i # j => q[i] # q[j]}}
                        \cup {[sf |-> <<>>, st |-> <<"d">>]},
                pil \in {[pf |-> <<>>, pt |-> <<>>], [pf |-> <<<<"p",".","s","l","s">>>>, pt |-> <<>>],
                         [pf |-> <<>>, pt |-> <<"p","d","/">>]},
                cl \in BOOLEAN,
                ev \in {<<>>, <<<<"B","=","2">>, <<"A","=","1">>>>}}
    IN  {in \in all :
            \/ in.goos = "linux" /\ in.raws.TargetOS = <<>>
                  /\ (in.raws.EnvVars = <<>> \/ in.raws.Clean)
            \/ in.raws.EnvVars = <<>> /\ ~in.raws.Clean /\ in.raws.PillarTree = <<>>}

\* templates config.Decode rejects
UndecodableInputs ==
    {[goos |-> "linux", raws |-> [ZeroRaws EXCEPT !.StateFiles = sf, !.undecodable = TRUE]] :
        sf \in {<<>>, <<<<"a",".","s","l","s">>>>}}

\* configurations that set environment_vars with an environment_vars_format of their
\* own or with a target_os of each kind
FormatInputs ==
    {[goos |-> "linux",
      raws |-> [ZeroRaws EXCEPT !.TargetOS = os, !.StateTree = <<"d">>, !.EnvVars = ev,
                                !.EnvVarFormat = fmt]] :
        os \in {<<>>, <<"W","i","n","d","o","w","s">>, <<"s","o","l","a","r","i","s">>, <<"u","b","u","n","t","u">>},
        ev \in {<<>>, <<<<"A","=","1">>>>, <<<<"B","=","i","t","'","s">>, <<"A","=","1">>>>},
        fmt \in {<<>>, <<"e","x","p","o","r","t"," ","%","s","=","'","%","s","'",";"," ">>}}

\* configurations whose local paths and remote base carry a ".sls" that is no suffix,
\* a backslash, a ".." element or a root, from a host of each kind
PathInputs ==
    {[goos |-> g,
      raws |-> [ZeroRaws EXCEPT !.TargetOS = os, !.StateFiles = sel.sf, !.StateTree = sel.st,
                                !.StateDir = sd]] :
        g \in {"linux", "windows"},
        os \in {<<>>, <<"w","i","n","d","o","w","s">>},
        sel \in {[sf |-> <<<<"v",".","s","l","s",".","d","/","a",".","s","l","s">>>>, st |-> <<>>],
                 [sf |-> <<<<"s","\\","b",".","s","l","s">>>>, st |-> <<>>],
                 [sf |-> <<<<".",".","/","x",".","s","l","s">>>>, st |-> <<>>],
                 [sf |-> <<<<"/","e","t","c","/","a",".","s","l","s">>>>, st |-> <<>>],
                 [sf |-> <<>>, st |-> <<"p","d","\\">>]},
        sd \in {<<>>, <<"C",":","\\","s","a","l","t">>}}

Inputs ==
    ValidationInputs \cup EnvInputs \cup FormatInputs \cup OSInputs \cup RunInputs
        \cup UndecodableInputs \cup PathInputs

(***************************************************************************)
(* The state after new(salt.Provisioner), with the template the host will   *)
(* hand to Prepare.                                                         *)
(***************************************************************************)
Init ==
    /\ \E in \in Inputs : goos = in.goos /\ raws = in.raws
    /\ config = ZeroConfig
    /\ stateFiles = <<>>
    /\ pillarFiles = <<>>
    /\ prepares = 0
    /\ errs = <<>>
    /\ pc = "new"
    /\ idx = 1
    /\ log = <<>>
    /\ ui = <<>>
    /\ result = <<>>
    /\ ctx = "live"

(***************************************************************************)
(* Prepare.  The host calls it before Provision, possibly more than once    *)
(* on the same Provisioner, and goes on only when it returns nil.           *)
(***************************************************************************)
Prepare ==
    /\ pc \in {"new", "prepared"}
    /\ prepares < MaxPrepare
    /\ prepares' = prepares + 1
    /\ IF raws.undecodable
       THEN /\ errs' = DecodeError
            /\ pc' = "invalid"
            /\ UNCHANGED <<config, stateFiles, pillarFiles>>
       ELSE LET c == SetDefaults(Decode(config, raws))
            IN  /\ config' = c
                /\ stateFiles' = stateFiles \o ValidFiles(c.StateFiles, <<"s","t","a","t","e","_","f","i","l","e","s">>)
                /\ pillarFiles' = pillarFiles \o ValidFiles(c.PillarFiles, <<"p","i","l","l","a","r","_","f","i","l","e","s">>)
                /\ errs' = ReturnedErrors(ValidationErrors(c))
                /\ pc' = IF errs' = <<>> THEN "prepared" ELSE "invalid"
    /\ UNCHANGED <<goos, raws, idx, log, ui, result, ctx>>

(***************************************************************************)
(* Provision, one action for each request to the communicator.              *)
(***************************************************************************)
\* where Provision goes on after each of its sections (PosPillarDir_Always is a faulty
\* variant of PosPillarDir: the pillar directory is created in every run)
PosClean == IF config.Clean THEN "removeStateDir" ELSE "done"
PosSalt ==
    IF Len(config.StateFiles) # 0 /\ Len(stateFiles) = 0 THEN PosClean ELSE "executeSaltState"
PosPillarFiles == IF Len(pillarFiles) > 0 THEN "uploadPillarFile.createDir" ELSE PosSalt
PosStateFiles == IF Len(stateFiles) > 0 THEN "uploadStateFile.createDir" ELSE PosPillarFiles
PosPillarDir_Always == "createPillarDir"
PosPillarDir == IF Len(pillarFiles) > 0 THEN "createPillarDir" ELSE PosStateFiles
PosPillarTree == IF config.PillarTree # <<>> THEN "uploadPillarTree.createDir" ELSE PosPillarDir

\* a faulty variant of Step: the run goes on after an error
Step_GoOn(entries, says, err, nextPc, nextIdx) ==
    /\ log' = log \o entries
    /\ ui' = ui \o says
    /\ pc' = nextPc
    /\ result' = <<>>
    /\ idx' = nextIdx
    /\ UNCHANGED <<goos, raws, config, stateFiles, pillarFiles, prepares, errs, ctx>>

\* the effect of one step: the requests made, what was said, and either the error
\* Provision returns or the position and index it goes on at
Step(entries, says, err, nextPc, nextIdx) ==
    /\ log' = log \o entries
    /\ ui' = ui \o says
    /\ IF err # <<>>
       THEN /\ pc' = "failed"
            /\ result' = err
            /\ idx' = idx
       ELSE /\ pc' = nextPc
            /\ result' = <<>>
            /\ idx' = nextIdx
    /\ UNCHANGED <<goos, raws, config, stateFiles, pillarFiles, prepares, errs, ctx>>

\* the host calls Provision after a Prepare that returned nil
Provision ==
    /\ pc = "prepared"
    /\ Step(<<>>, <<<<"P","r","o","v","i","s","i","o","n","i","n","g"," ","w","i","t","h"," ","S","a","l","t",".",".",".">>>>, <<>>,
            IF config.StateTree # <<>> THEN "uploadStateTree.createDir" ELSE "createStateDir", 1)

\* p.uploadDir(ui, comm, p.config.StateDir, p.config.StateTree): its createDir
UploadStateTreeCreateDir ==
    /\ pc = "uploadStateTree.createDir"
    /\ \E out \in RunOutcomes :
        LET r == createDir(config.StateDir, out)
        IN  Step(<<r.entry>>, <<<<"U","p","l","o","a","d","i","n","g"," ","S","t","a","t","e"," ","T","r","e","e",".",".",".">>, r.say>>,
                 Wrap(<<"e","r","r","o","r"," ","u","p","l","o","a","d","i","n","g"," ","s","t","a","t","e","_","t","r","e","e",":"," ","%","s">>, r.err), "uploadStateTree.UploadDir", 1)

\* a faulty variant of UploadStateTree: the normalized source is written back to the
\* configuration
UploadStateTree_WriteBack ==
    /\ pc = "uploadStateTree.UploadDir"
    /\ \E out \in TransferOutcomes :
        LET src == uploadDirSource(config.StateTree)
        IN  /\ log' = Append(log, Entry("uploadDir", <<>>, config.StateDir, src, <<>>, <<>>, out))
            /\ ui' = Append(ui, Sprintf(<<"U","p","l","o","a","d","i","n","g"," ","l","o","c","a","l"," ","d","i","r","e","c","t","o","r","y"," ","%","s"," ","t","o"," ","r","e","m","o","t","e"," ","d","i","r","e","c","t","o","r","y"," ","%","s">>, <<src, config.StateDir>>))
            /\ config' = [config EXCEPT !.StateTree = src]
            /\ IF out.transport
               THEN /\ pc' = "failed"
                    /\ result' = Wrap(<<"e","r","r","o","r"," ","u","p","l","o","a","d","i","n","g"," ","s","t","a","t","e","_","t","r","e","e",":"," ","%","s">>, <<CommError>>)
               ELSE /\ pc' = PosPillarTree
                    /\ result' = <<>>
            /\ idx' = idx
            /\ UNCHANGED <<goos, raws, stateFiles, pillarFiles, prepares, errs, ctx>>

\* p.uploadDir(ui, comm, p.config.StateDir, p.config.StateTree): its comm.UploadDir
UploadStateTree ==
    /\ pc = "uploadStateTree.UploadDir"
    /\ \E out \in TransferOutcomes :
        LET src == uploadDirSource(config.StateTree)
        IN  Step(<<Entry("uploadDir", <<>>, config.StateDir, src, <<>>, <<>>, out)>>,
                 <<Sprintf(<<"U","p","l","o","a","d","i","n","g"," ","l","o","c","a","l"," ","d","i","r","e","c","t","o","r","y"," ","%","s"," ","t","o"," ","r","e","m","o","t","e"," ","d","i","r","e","c","t","o","r","y"," ","%","s">>, <<src, config.StateDir>>)>>,
                 Wrap(<<"e","r","r","o","r"," ","u","p","l","o","a","d","i","n","g"," ","s","t","a","t","e","_","t","r","e","e",":"," ","%","s">>, IF out.transport THEN <<CommError>> ELSE <<>>),
                 PosPillarTree, 1)

\* p.createDir(ui, comm, p.config.StateDir)
CreateStateDir ==
    /\ pc = "createStateDir"
    /\ \E out \in RunOutcomes :
        LET r == createDir(config.StateDir, out)
        IN  Step(<<r.entry>>, <<<<"C","r","e","a","t","i","n","g"," ","S","a","l","t"," ","s","t","a","t","e"," ","d","i","r","e","c","t","o","r","y",".",".",".">>, r.say>>,
                 Wrap(<<"e","r","r","o","r"," ","c","r","e","a","t","i","n","g"," ","s","t","a","t","e"," ","d","i","r","e","c","t","o","r","y",":"," ","%","s">>, r.err), PosPillarTree, 1)

\* p.uploadDir(ui, comm, p.config.PillarDir, p.config.PillarTree): its createDir
UploadPillarTreeCreateDir ==
    /\ pc = "uploadPillarTree.createDir"
    /\ \E out \in RunOutcomes :
        LET r == createDir(config.PillarDir, out)
        IN  Step(<<r.entry>>, <<<<"U","p","l","o","a","d","i","n","g"," ","P","i","l","l","a","r"," ","T","r","e","e",".",".",".">>, r.say>>,
                 Wrap(<<"e","r","r","o","r"," ","u","p","l","o","a","d","i","n","g"," ","p","i","l","l","a","r","_","t","r","e","e",":"," ","%","s">>, r.err), "uploadPillarTree.UploadDir", 1)

\* p.uploadDir(ui, comm, p.config.PillarDir, p.config.PillarTree): its comm.UploadDir
UploadPillarTree ==
    /\ pc = "uploadPillarTree.UploadDir"
    /\ \E out \in TransferOutcomes :
        LET src == uploadDirSource(config.PillarTree)
        IN  Step(<<Entry("uploadDir", <<>>, config.PillarDir, src, <<>>, <<>>, out)>>,
                 <<Sprintf(<<"U","p","l","o","a","d","i","n","g"," ","l","o","c","a","l"," ","d","i","r","e","c","t","o","r","y"," ","%","s"," ","t","o"," ","r","e","m","o","t","e"," ","d","i","r","e","c","t","o","r","y"," ","%","s">>, <<src, config.PillarDir>>)>>,
                 Wrap(<<"e","r","r","o","r"," ","u","p","l","o","a","d","i","n","g"," ","p","i","l","l","a","r","_","t","r","e","e",":"," ","%","s">>, IF out.transport THEN <<CommError>> ELSE <<>>),
                 PosPillarDir, 1)

\* p.createDir(ui, comm, p.config.PillarDir)
CreatePillarDir ==
    /\ pc = "createPillarDir"
    /\ \E out \in RunOutcomes :
        LET r == createDir(config.PillarDir, out)
        IN  Step(<<r.entry>>, <<<<"C","r","e","a","t","i","n","g"," ","S","a","l","t"," ","p","i","l","l","a","r"," ","d","i","r","e","c","t","o","r","y",".",".",".">>, r.say>>,
                 Wrap(<<"e","r","r","o","r"," ","c","r","e","a","t","i","n","g"," ","p","i","l","l","a","r"," ","d","i","r","e","c","t","o","r","y",":"," ","%","s">>, r.err), PosStateFiles, 1)

\* p.uploadSingleFile up to and including its createDir
uploadSingleFileCreateDir(uploadFile, uploadDir, nextPc) ==
    \E out \in RunOutcomes :
        LET r == createDir(remoteDir(uploadDir, uploadFile), out)
        IN  Step(<<r.entry>>,
                 <<Sprintf(<<"U","p","l","o","a","d","i","n","g"," ","f","i","l","e"," ","%","s"," ","t","o"," ","%","s">>, <<Abs(uploadFile), uploadDir>>), r.say>>,
                 r.err, nextPc, idx)

\* p.uploadFile(ui, comm, remoteFile, localFile) at the end of p.uploadSingleFile:
\* os.Open may fail, and then nothing is asked of the communicator
uploadSingleFileUpload(uploadFile, uploadDir, nextPc, nextIdx) ==
    LET src == Abs(uploadFile)
        dst == remoteFile(uploadDir, uploadFile)
    IN  \/ Step(<<>>, <<>>,
                <<Sprintf(<<"e","r","r","o","r"," ","o","p","e","n","i","n","g"," ","f","i","l","e"," ","%","s",":"," ","%","s">>, <<src, <<"p","e","r","m","i","s","s","i","o","n"," ","d","e","n","i","e","d">>>>)>>,
                nextPc, nextIdx)
        \/ \E out \in TransferOutcomes :
              Step(<<Entry("upload", <<>>, dst, src, <<>>, <<>>, out)>>,
                   <<Sprintf(<<"U","p","l","o","a","d","i","n","g"," ","f","i","l","e",":"," ","%","s">>, <<src>>)>>,
                   IF out.transport THEN <<CommError>> ELSE <<>>, nextPc, nextIdx)

\* p.uploadFiles(ui, comm, p.stateFiles, p.config.StateDir)
UploadStateFileCreateDir ==
    /\ pc = "uploadStateFile.createDir"
    /\ uploadSingleFileCreateDir(stateFiles[idx], config.StateDir, "uploadStateFile.Upload")

UploadStateFile ==
    /\ pc = "uploadStateFile.Upload"
    /\ IF idx < Len(stateFiles)
       THEN uploadSingleFileUpload(stateFiles[idx], config.StateDir, "uploadStateFile.createDir", idx + 1)
       ELSE uploadSingleFileUpload(stateFiles[idx], config.StateDir, PosPillarFiles, 1)

\* p.uploadFiles(ui, comm, p.pillarFiles, p.config.PillarDir)
UploadPillarFileCreateDir ==
    /\ pc = "uploadPillarFile.createDir"
    /\ uploadSingleFileCreateDir(pillarFiles[idx], config.PillarDir, "uploadPillarFile.Upload")

UploadPillarFile ==
    /\ pc = "uploadPillarFile.Upload"
    /\ IF idx < Len(pillarFiles)
       THEN uploadSingleFileUpload(pillarFiles[idx], config.PillarDir, "uploadPillarFile.createDir", idx + 1)
       ELSE uploadSingleFileUpload(pillarFiles[idx], config.PillarDir, PosSalt, 1)

\* a faulty variant of ExecuteSaltState: every apply command is run a second time
ExecuteSaltState_Twice ==
    /\ pc = "executeSaltState"
    /\ \E out \in RunOutcomes :
        LET files == Len(config.StateFiles) # 0
            r == executeSaltState(config, createFlattenedEnvVars(config),
                                  IF files THEN stateFiles[idx] ELSE <<>>, out)
        IN  Step(<<r.entry, r.entry>>, <<r.say, r.say>>, Wrap(<<"e","r","r","o","r"," ","e","x","e","c","u","t","i","n","g"," ","S","a","l","t",":"," ","%","s">>, r.err),
                 IF files /\ idx < Len(stateFiles) THEN "executeSaltState" ELSE PosClean,
                 IF files /\ idx < Len(stateFiles) THEN idx + 1 ELSE 1)

\* p.executeSalt: one p.executeSaltState, for p.stateFiles[idx] when state_files is
\* set and for "" otherwise
ExecuteSaltState ==
    /\ pc = "executeSaltState"
    /\ \E out \in RunOutcomes :
        LET files == Len(config.StateFiles) # 0
            r == executeSaltState(config, createFlattenedEnvVars(config),
                                  IF files THEN stateFiles[idx] ELSE <<>>, out)
        IN  Step(<<r.entry>>, <<r.say>>, Wrap(<<"e","r","r","o","r"," ","e","x","e","c","u","t","i","n","g"," ","S","a","l","t",":"," ","%","s">>, r.err),
                 IF files /\ idx < Len(stateFiles) THEN "executeSaltState" ELSE PosClean,
                 IF files /\ idx < Len(stateFiles) THEN idx + 1 ELSE 1)

\* a faulty variant of RemoveStateDir: the pillar directory is left when the removal
\* of the state directory fails
RemoveStateDir_StopOnFailure ==
    /\ pc = "removeStateDir"
    /\ \E out \in RunOutcomes :
        LET r == removeDir(config.StateDir, out)
        IN  Step(<<r.entry>>, <<<<"C","l","e","a","n","i","n","g"," ","u","p"," ","s","t","a","t","e"," ","a","n","d"," ","p","i","l","l","a","r"," ","d","i","r","e","c","t","o","r","i","e","s",".",".",".">>, r.say>>,
                 <<>>, IF Succeeded(out) THEN "removePillarDir" ELSE "done", 1)

\* a faulty variant of RemoveStateDir: a removal that fails ends the run with an error
RemoveStateDir_Fatal ==
    /\ pc = "removeStateDir"
    /\ \E out \in RunOutcomes :
        LET r == removeDir(config.StateDir, out)
        IN  Step(<<r.entry>>, <<<<"C","l","e","a","n","i","n","g"," ","u","p"," ","s","t","a","t","e"," ","a","n","d"," ","p","i","l","l","a","r"," ","d","i","r","e","c","t","o","r","i","e","s",".",".",".">>, r.say>>,
                 IF Succeeded(out) THEN <<>> ELSE <<<<"e","r","r","o","r"," ","r","e","m","o","v","i","n","g"," ","d","i","r","e","c","t","o","r","y">>>>,
                 "removePillarDir", 1)

\* _ = p.removeDir(ui, comm, p.config.StateDir)
RemoveStateDir ==
    /\ pc = "removeStateDir"
    /\ \E out \in RunOutcomes :
        LET r == removeDir(config.StateDir, out)
        IN  Step(<<r.entry>>, <<<<"C","l","e","a","n","i","n","g"," ","u","p"," ","s","t","a","t","e"," ","a","n","d"," ","p","i","l","l","a","r"," ","d","i","r","e","c","t","o","r","i","e","s",".",".",".">>, r.say>>,
                 <<>>, "removePillarDir", 1)

\* a faulty variant of RemovePillarDir: salt is applied again after the clean-up
RemovePillarDir_ThenApply ==
    /\ pc = "removePillarDir"
    /\ \E out \in RunOutcomes :
        LET r == removeDir(config.PillarDir, out)
        IN  Step(<<r.entry>>, <<r.say>>, <<>>, "executeSaltState", 1)

\* _ = p.removeDir(ui, comm, p.config.PillarDir), and return nil
RemovePillarDir ==
    /\ pc = "removePillarDir"
    /\ \E out \in RunOutcomes :
        LET r == removeDir(config.PillarDir, out)
        IN  Step(<<r.entry>>, <<r.say>>, <<>>, "done", 1)

\* the host cancels the context while Provision runs.  Provision and its helpers
\* never read their ctx: every RunWithUi is handed context.TODO(), and Upload and
\* UploadDir take no context
Cancel ==
    /\ pc \notin {"new", "prepared", "invalid", "done", "failed"}
    /\ ctx = "live"
    /\ ctx' = "cancelled"
    /\ UNCHANGED <<goos, raws, config, stateFiles, pillarFiles, prepares, errs, pc, idx, log, ui,
                   result>>

Next ==
    \/ Prepare
    \/ Cancel
    \/ Provision
    \/ UploadStateTreeCreateDir
    \/ UploadStateTree
    \/ CreateStateDir
    \/ UploadPillarTreeCreateDir
    \/ UploadPillarTree
    \/ CreatePillarDir
    \/ UploadStateFileCreateDir
    \/ UploadStateFile
    \/ UploadPillarFileCreateDir
    \/ UploadPillarFile
    \/ ExecuteSaltState
    \/ RemoveStateDir
    \/ RemovePillarDir

Spec == Init /\ [][Next]_vars


(***************************************************************************)
(* Vocabulary of the properties, stated on the template the host supplied   *)
(* (raws) and on the local file system, independently of how Prepare        *)
(* computes its answer.                                                     *)
(***************************************************************************)
Range(seq) == {seq[i] : i \in 1..Len(seq)}

HasPrefix(s, pre) == Len(s) >= Len(pre) /\ SubSeq(s, 1, Len(pre)) = pre

HasSubstring(s, sub) == \E i \in 1..(Len(s) - Len(sub) + 1) : SubSeq(s, i, i + Len(sub) - 1) = sub

\* Prepare has returned at least once, for a template that decodes
Returned == prepares >= 1 /\ ~raws.undecodable

StateBoth == raws.StateFiles # <<>> /\ raws.StateTree # <<>>
StateNeither == raws.StateFiles = <<>> /\ raws.StateTree = <<>>
StateExactlyOne == ~StateBoth /\ ~StateNeither
PillarBoth == raws.PillarFiles # <<>> /\ raws.PillarTree # <<>>
PillarNeither == raws.PillarFiles = <<>> /\ raws.PillarTree = <<>>

\* an entry with an '=' whose first '=' is not its first character
WellFormedEntry(e) == e # <<>> /\ e[1] # "=" /\ \E i \in 1..Len(e) : e[i] = "="
EnvWellFormed == \A e \in Range(raws.EnvVars) : WellFormedEntry(e)

\* the position of the first '=' of a well-formed entry, its key and its value
FirstEquals(e) == CHOOSE i \in 1..Len(e) : e[i] = "=" /\ \A j \in 1..(i - 1) : e[j] # "="
KeyOf(e) == SubSeq(e, 1, FirstEquals(e) - 1)
ValueOf(e) == SubSeq(e, FirstEquals(e) + 1, Len(e))

StatePathsRight ==
    /\ \A f \in Range(raws.StateFiles) : Stat(f) = "file"
    /\ raws.StateTree # <<>> => Stat(raws.StateTree) = "dir"
PillarPathsRight ==
    /\ \A f \in Range(raws.PillarFiles) : Stat(f) = "file"
    /\ raws.PillarTree # <<>> => Stat(raws.PillarTree) = "dir"

\* how many validation rules the template violates
Violations ==
      (IF StateBoth \/ StateNeither THEN 1 ELSE 0)
    + (IF PillarBoth THEN 1 ELSE 0)
    + Cardinality({i \in 1..Len(raws.EnvVars) : ~WellFormedEntry(raws.EnvVars[i])})
    + Cardinality({i \in 1..Len(raws.StateFiles) : Stat(raws.StateFiles[i]) # "file"})
    + Cardinality({i \in 1..Len(raws.PillarFiles) : Stat(raws.PillarFiles[i]) # "file"})
    + (IF raws.StateTree # <<>> /\ Stat(raws.StateTree) # "dir" THEN 1 ELSE 0)
    + (IF raws.PillarTree # <<>> /\ Stat(raws.PillarTree) # "dir" THEN 1 ELSE 0)

SomeError(sub) == \E e \in Range(errs) : HasSubstring(e, sub)

(***************************************************************************)
(* C1                                                                       *)
(***************************************************************************)
\* C1 as stated: for a template whose paths exist with the right kind and whose
\* environment entries are well formed, Prepare returns an error containing
\* "not both" when state_files and state_tree are both set, an error containing
\* "must be specified" when neither is set, and no error when exactly one is set.
C1_AsStated ==
    (Returned /\ StatePathsRight /\ PillarPathsRight /\ EnvWellFormed) =>
        /\ StateBoth => SomeError(<<"n","o","t"," ","b","o","t","h">>)
        /\ StateNeither => SomeError(<<"m","u","s","t"," ","b","e"," ","s","p","e","c","i","f","i","e","d">>)
        /\ StateExactlyOne => errs = <<>>

\* C1 amended: as C1, but no error is returned when exactly one of state_files and
\* state_tree is set only if pillar_files and pillar_tree are not both set as well.
C1_StateExclusive ==
    (Returned /\ StatePathsRight /\ PillarPathsRight /\ EnvWellFormed) =>
        /\ StateBoth => SomeError(<<"n","o","t"," ","b","o","t","h">>)
        /\ StateNeither => SomeError(<<"m","u","s","t"," ","b","e"," ","s","p","e","c","i","f","i","e","d">>)
        /\ (StateExactlyOne /\ ~PillarBoth) => errs = <<>>

\* Prepare has accepted a template that sets state_tree alone, with pillar files
C1_Witness ==
    /\ Returned /\ pc = "prepared" /\ errs = <<>>
    /\ raws.StateFiles = <<>> /\ raws.StateTree # <<>> /\ raws.PillarFiles # <<>>

(***************************************************************************)
(* C2                                                                       *)
(***************************************************************************)
\* C2: whatever the state selection, Prepare rejects pillar_files together with
\* pillar_tree; and with neither of them set no error is about the pillar options, so
\* that a template that is otherwise right is accepted.
C2_PillarExclusive ==
    Returned =>
        /\ PillarBoth =>
              /\ pc = "invalid"
              /\ <<"e","i","t","h","e","r"," ","p","i","l","l","a","r","_","f","i","l","e","s"," ","o","r"," ","p","i","l","l","a","r","_","t","r","e","e"," ","c","a","n"," ","b","e"," ","s","p","e","c","i","f","i","e","d",","," ","n","o","t"," ","b","o","t","h">> \in Range(errs)
        /\ PillarNeither =>
              /\ ~SomeError(<<"p","i","l","l","a","r">>)
              /\ (StateExactlyOne /\ StatePathsRight /\ EnvWellFormed) => errs = <<>>

\* Prepare has rejected pillar_files with pillar_tree for a right state selection
C2_Witness ==
    /\ Returned /\ pc = "invalid" /\ PillarBoth /\ PillarPathsRight
    /\ StateExactlyOne /\ StatePathsRight /\ Len(errs) = 1

(***************************************************************************)
(* C3                                                                       *)
(***************************************************************************)
EnvError(e) == <<"e","n","v","i","r","o","n","m","e","n","t"," ","v","a","r","i","a","b","l","e"," ","n","o","t"," ","i","n"," ","f","o","r","m","a","t"," ","'","k","e","y","=","v","a","l","u","e","'",":"," ">> \o e

\* C3: Prepare reports an environment_vars entry exactly when the entry has no '=' or
\* has nothing before its first '=', once for each such entry; for an accepted template
\* the key of an entry is the text before its first '=' and the value everything after it.
C3_EnvEntries ==
    Returned =>
        /\ \A e \in Range(raws.EnvVars) : (EnvError(e) \in Range(errs)) <=> ~WellFormedEntry(e)
        /\ Cardinality({i \in 1..Len(errs) : HasPrefix(errs[i], <<"e","n","v","i","r","o","n","m","e","n","t"," ","v","a","r","i","a","b","l","e"," ","n","o","t"," ","i","n"," ","f","o","r","m","a","t">>)})
             = Cardinality({i \in 1..Len(raws.EnvVars) : ~WellFormedEntry(raws.EnvVars[i])})
        /\ pc # "invalid" =>
              /\ DOMAIN escapedEnvVars(config.EnvVars) = {KeyOf(e) : e \in Range(raws.EnvVars)}
              /\ \A i \in 1..Len(raws.EnvVars) :
                    (\A j \in (i + 1)..Len(raws.EnvVars) : KeyOf(raws.EnvVars[j]) # KeyOf(raws.EnvVars[i]))
                    => escapedEnvVars(config.EnvVars)[KeyOf(raws.EnvVars[i])]
                         = escapeValue(ValueOf(raws.EnvVars[i]))

\* Prepare has accepted an entry whose value holds a further '=' and rejected nothing
C3_Witness ==
    /\ Returned /\ pc = "prepared"
    /\ \E e \in Range(raws.EnvVars) : WellFormedEntry(e) /\ \E i \in 1..Len(ValueOf(e)) : ValueOf(e)[i] = "="

(***************************************************************************)
(* C4                                                                       *)
(***************************************************************************)
\* C4: the error Prepare returns holds one entry for each validation rule the template
\* violates, and Prepare returns nil exactly when it violates none.
C4_ErrorsCollected ==
    Returned =>
        /\ Len(errs) = Violations
        /\ pc = "invalid" <=> Violations > 0

\* Prepare has returned four errors, for violations of four different kinds
C4_Witness ==
    /\ Returned /\ Len(errs) = 4
    /\ StateBoth /\ PillarBoth
    /\ \E e \in Range(raws.EnvVars) : ~WellFormedEntry(e)
    /\ \E f \in Range(raws.StateFiles) : Stat(f) = "dir"

(***************************************************************************)
(* C5                                                                       *)
(***************************************************************************)
PathError(cfg, path) == \E e \in Range(errs) : HasPrefix(e, cfg \o <<":"," ">> \o path \o <<" ">>)

\* C5: Prepare reports an entry of state_files or pillar_files exactly when it is
\* missing or a directory, and a state_tree or pillar_tree exactly when it is missing
\* or not a directory.
C5_PathKinds ==
    Returned =>
        /\ \A f \in Range(raws.StateFiles) : PathError(<<"s","t","a","t","e","_","f","i","l","e","s">>, f) <=> Stat(f) # "file"
        /\ \A f \in Range(raws.PillarFiles) : PathError(<<"p","i","l","l","a","r","_","f","i","l","e","s">>, f) <=> Stat(f) # "file"
        /\ raws.StateTree # <<>> =>
              (PathError(<<"s","t","a","t","e","_","t","r","e","e">>, raws.StateTree) <=> Stat(raws.StateTree) # "dir")
        /\ raws.PillarTree # <<>> =>
              (PathError(<<"p","i","l","l","a","r","_","t","r","e","e">>, raws.PillarTree) <=> Stat(raws.PillarTree) # "dir")

\* Prepare has rejected a directory among the state files and a missing pillar tree,
\* and has reported nothing for the state file beside it
C5_Witness ==
    /\ Returned /\ pc = "invalid"
    /\ \E f \in Range(raws.StateFiles) : Stat(f) = "dir" /\ PathError(<<"s","t","a","t","e","_","f","i","l","e","s">>, f)
    /\ \E f \in Range(raws.StateFiles) : Stat(f) = "file" /\ ~PathError(<<"s","t","a","t","e","_","f","i","l","e","s">>, f)
    /\ raws.PillarTree # <<>> /\ Stat(raws.PillarTree) = "missing"
    /\ PathError(<<"p","i","l","l","a","r","_","t","r","e","e">>, raws.PillarTree)

(***************************************************************************)
(* C6                                                                       *)
(***************************************************************************)
\* C6: nothing is asked of the communicator before Provision is called, and for a
\* template that fails validation it never is: Prepare returns the errors, the host
\* stops there, no command is run and nothing is transferred.
C6_NoRemoteEffect ==
    /\ pc \in {"new", "prepared", "invalid"} => log = <<>>
    /\ (prepares >= 1 /\ (raws.undecodable \/ Violations > 0)) =>
          pc = "invalid" /\ errs # <<>> /\ log = <<>> /\ ui = <<>>

\* Prepare has returned the errors of a template that names a missing state file
C6_Witness ==
    /\ Returned /\ pc = "invalid" /\ errs # <<>> /\ log = <<>>
    /\ \E f \in Range(raws.StateFiles) : Stat(f) = "missing"


(***************************************************************************)
(* C7, C8, C9: the OS profiles as the documentation gives them.             *)
(***************************************************************************)
LinuxFamilyNames ==
    {<<"a","m","a","z","o","n">>, <<"a","r","c","h">>, <<"c","e","n","t","o","s">>, <<"d","e","b","i","a","n">>, <<"f","e","d","o","r","a">>, <<"f","r","e","e","b","s","d">>, <<"l","i","n","u","x">>,
     <<"m","a","c","o","s">>, <<"o","r","a","c","l","e">>, <<"p","h","o","t","o","n">>, <<"r","e","d","h","a","t">>, <<"s","u","s","e">>, <<"u","b","u","n","t","u">>}

LinuxProfile ==
    [stateDir    |-> <<"/","t","m","p","/","p","a","c","k","e","r","-","p","r","o","v","i","s","i","o","n","e","r","-","s","a","l","t">>,
     pillarDir   |-> <<"/","t","m","p","/","p","a","c","k","e","r","-","p","r","o","v","i","s","i","o","n","e","r","-","s","a","l","t","-","p","i","l","l","a","r">>,
     envFormat   |-> <<"%","s","=","'","%","s","'"," ">>,
     apply       |-> <<"s","u","d","o"," ","%","s","s","a","l","t","-","c","a","l","l"," ","-","-","l","o","c","a","l"," ","-","-","f","i","l","e","-","r","o","o","t","=","%","s"," ","s","t","a","t","e",".","a","p","p","l","y"," ","%","s">>,
     applyPillar |-> <<"s","u","d","o"," ","%","s","s","a","l","t","-","c","a","l","l"," ","-","-","l","o","c","a","l"," ","-","-","f","i","l","e","-","r","o","o","t","=","%","s"," ","-","-","p","i","l","l","a","r","-","r","o","o","t","=","%","s"," ","s","t","a","t","e",".","a","p","p","l","y"," ","%","s">>]

WindowsProfile ==
    [stateDir    |-> <<"C",":","/","W","i","n","d","o","w","s","/","T","e","m","p","/","p","a","c","k","e","r","-","p","r","o","v","i","s","i","o","n","e","r","-","s","a","l","t">>,
     pillarDir   |-> <<"C",":","/","W","i","n","d","o","w","s","/","T","e","m","p","/","p","a","c","k","e","r","-","p","r","o","v","i","s","i","o","n","e","r","-","s","a","l","t","-","p","i","l","l","a","r">>,
     envFormat   |-> <<"%","s","=","'","%","s","'"," ">>,
     apply       |-> <<"%","s","s","a","l","t","-","c","a","l","l"," ","-","-","l","o","c","a","l"," ","-","-","f","i","l","e","-","r","o","o","t","=","%","s"," ","s","t","a","t","e",".","a","p","p","l","y"," ","%","s">>,
     applyPillar |-> <<"%","s","s","a","l","t","-","c","a","l","l"," ","-","-","l","o","c","a","l"," ","-","-","f","i","l","e","-","r","o","o","t","=","%","s"," ","-","-","p","i","l","l","a","r","-","r","o","o","t","=","%","s"," ","s","t","a","t","e",".","a","p","p","l","y"," ","%","s">>]

\* the profile the provisioner works with after Prepare: what its lookups give
ProfileInUse ==
    [stateDir    |-> getConfig(config, <<"c","o","n","f","i","g","S","t","a","t","e","D","i","r">>),
     pillarDir   |-> getConfig(config, <<"c","o","n","f","i","g","P","i","l","l","a","r","D","i","r">>),
     envFormat   |-> getConfig(config, <<"c","o","n","f","i","g","E","n","v","F","o","r","m","a","t">>),
     apply       |-> getCommand(config, <<"c","m","d","S","a","l","t","C","a","l","l">>),
     applyPillar |-> getCommand(config, <<"c","m","d","S","a","l","t","C","a","l","l","P","i","l","l","a","r">>)]

\* a target_os that is empty or names neither windows nor a known family
Unrecognized(os) == os = <<>> \/ ToLower(os) \notin (LinuxFamilyNames \cup {<<"w","i","n","d","o","w","s">>})

\* the profile a target_os is to resolve to
ExpectedProfile(os) == IF ToLower(os) = <<"w","i","n","d","o","w","s">> THEN WindowsProfile ELSE LinuxProfile

\* C7 as stated: for every target_os the resolution yields one of the two profiles, and
\* for an unrecognized or empty target_os it yields the linux profile, so that the
\* default directories, the environment format and the apply template in use are the
\* linux ones and none is empty.
C7_AsStated ==
    Returned =>
        /\ ProfileInUse \in {LinuxProfile, WindowsProfile}
        /\ Unrecognized(raws.TargetOS) =>
              /\ ProfileInUse = LinuxProfile
              /\ raws.EnvVarFormat = <<>> => config.EnvVarFormat = LinuxProfile.envFormat
              /\ (raws.StateDir = <<>> /\ raws.StagingDir = <<>>) => config.StateDir = LinuxProfile.stateDir
              /\ raws.PillarDir = <<>> => config.PillarDir = LinuxProfile.pillarDir
              /\ config.StateDir # <<>> /\ config.PillarDir # <<>>

\* C8 as stated: every known Linux/Unix family name, in any letter case, resolves to
\* the linux profile, and windows in any letter case to the windows profile.
C8_AsStated ==
    Returned =>
        /\ ToLower(raws.TargetOS) \in LinuxFamilyNames => ProfileInUse = LinuxProfile
        /\ ToLower(raws.TargetOS) = <<"w","i","n","d","o","w","s">> => ProfileInUse = WindowsProfile

\* C9 as stated: after Prepare the remote state directory and the remote pillar
\* directory are the ones the user supplied and otherwise the defaults of the resolved
\* OS profile.
C9_AsStated ==
    Returned =>
        /\ config.StateDir = (IF raws.StateDir # <<>> THEN raws.StateDir
                              ELSE IF raws.StagingDir # <<>> THEN raws.StagingDir
                                   ELSE ExpectedProfile(raws.TargetOS).stateDir)
        /\ config.PillarDir = (IF raws.PillarDir # <<>> THEN raws.PillarDir
                               ELSE ExpectedProfile(raws.TargetOS).pillarDir)

(***************************************************************************)
(* C10                                                                      *)
(***************************************************************************)
IsApply(e) == e.op = "apply"

\* the state names of the apply commands issued so far, in order
AppliedNames == LET a == SelectSeq(log, IsApply) IN [i \in 1..Len(a) |-> a[i].name]

\* Provision has returned nil and every request to the communicator succeeded
RunSucceeded == pc = "done" /\ \A i \in 1..Len(log) : Succeeded(log[i].out)

\* C10 as stated: in a run where every remote step succeeds the apply command is
\* issued once for each entry of state_files, in the declared order and with the state
\* name of that entry, and once with the empty state name when state_files is empty.
C10_AsStated ==
    RunSucceeded =>
        AppliedNames = (IF raws.StateFiles # <<>>
                        THEN [i \in 1..Len(raws.StateFiles) |-> stateName(raws.StateFiles[i])]
                        ELSE << <<>> >>)

(***************************************************************************)
(* C11                                                                      *)
(***************************************************************************)
IsUpload(e) == e.op = "upload"

\* the local files handed to comm.Upload so far, in order
UploadedFiles == LET u == SelectSeq(log, IsUpload) IN [i \in 1..Len(u) |-> u[i].src]

\* the local files of the template in the order a run is to upload them: the state
\* files as declared, then the pillar files as declared
DeclaredFiles ==
    LET declared == raws.StateFiles \o raws.PillarFiles
    IN  [i \in 1..Len(declared) |-> Abs(declared[i])]

\* C11 as stated: in a run with no failure the discrete files are uploaded in the
\* declared order, every state file before any pillar file, the state files in the
\* order of state_files and the pillar files in the order of pillar_files, and each
\* configured file exactly once.
C11_AsStated == RunSucceeded => UploadedFiles = DeclaredFiles

(***************************************************************************)
(* C12                                                                      *)
(***************************************************************************)
\* the phase a request belongs to: 1 workspace and content, 2 apply, 3 clean-up
Phase(e) == IF e.op = "apply" THEN 2 ELSE IF e.op = "removeDir" THEN 3 ELSE 1

Ops == {log[i].op : i \in 1..Len(log)}

\* C12: the phases of a run only move forward: every directory creation and every
\* transfer comes before the first apply command and every apply command before the
\* first removal, so no upload follows an apply and no apply follows a removal.
C12_PhasesForward ==
    \A i, j \in 1..Len(log) : i < j => Phase(log[i]) <= Phase(log[j])

\* a finished run that created directories, uploaded files, applied two states and
\* cleaned up
C12_Witness ==
    /\ pc = "done"
    /\ {"createDir", "upload", "apply", "removeDir"} \subseteq Ops
    /\ Len(SelectSeq(log, IsApply)) >= 2

(***************************************************************************)
(* C13                                                                      *)
(***************************************************************************)
\* a request of the run proper (not of the clean-up) that failed
FailedStep(e) == e.op # "removeDir" /\ ~Succeeded(e.out)

\* C13: once a directory creation, a transfer or an apply command fails, by a
\* transport error or by a non-zero exit status, Provision makes no further request
\* (no later upload, no later apply, no removal even when clean is set) and
\* returns an error.
C13_FailedAbsorbing ==
    \A i \in 1..Len(log) :
        FailedStep(log[i]) => i = Len(log) /\ pc = "failed" /\ result # <<>>

\* the first of two state files failed to apply with clean set: the second was not
\* applied and nothing was removed
C13_Witness ==
    /\ pc = "failed"
    /\ raws.Clean
    /\ prepares = 1
    /\ Len(raws.StateFiles) = 2
    /\ Len(SelectSeq(log, IsApply)) = 1
    /\ log[Len(log)].op = "apply"
    /\ ~log[Len(log)].out.transport /\ log[Len(log)].out.status = 42

(***************************************************************************)
(* C14                                                                      *)
(***************************************************************************)
\* the decimal numeral of n
RECURSIVE Decimal(_)
Decimal(n) ==
    LET digits == <<"0","1","2","3","4","5","6","7","8","9">>
    IN  IF n < 10 THEN <<digits[n + 1]>> ELSE Decimal(n \div 10) \o <<digits[(n % 10) + 1]>>

\* the last request made was an apply command
LastIsApply == Len(log) > 0 /\ log[Len(log)].op = "apply"

\* C14: an apply command that ends with exit status 0 gives no error; exit status 127
\* gives a 'could not be found' error that names the command and advises checking the
\* path; any other status n gives a generic error whose text holds the decimal
\* numeral of n; an error of the transport is passed on as it is.
C14_ExitStatus ==
    LastIsApply =>
        LET e == log[Len(log)]
        IN  /\ Succeeded(e.out) => pc # "failed" /\ result = <<>>
            /\ (~e.out.transport /\ e.out.status = 127) =>
                  /\ pc = "failed" /\ Len(result) = 1
                  /\ HasSubstring(result[1], <<"c","o","u","l","d"," ","n","o","t"," ","b","e"," ","f","o","u","n","d">>)
                  /\ HasSubstring(result[1], e.cmd)
                  /\ HasSubstring(result[1], <<"a","v","a","i","l","a","b","l","e"," ","o","n"," ","t","h","e"," ","p","a","t","h">>)
            /\ (~e.out.transport /\ e.out.status \notin {0, 127}) =>
                  /\ pc = "failed" /\ Len(result) = 1
                  /\ HasSubstring(result[1], <<"e","x","i","t"," ","s","t","a","t","u","s",":"," ">> \o Decimal(e.out.status))
                  /\ ~HasSubstring(result[1], <<"c","o","u","l","d"," ","n","o","t"," ","b","e"," ","f","o","u","n","d">>)
            /\ e.out.transport =>
                  /\ pc = "failed"
                  /\ result = <<<<"e","r","r","o","r"," ","e","x","e","c","u","t","i","n","g"," ","S","a","l","t",":"," ">> \o CommError>>

\* an apply command ended with exit status 127
C14_Witness ==
    /\ LastIsApply
    /\ ~log[Len(log)].out.transport /\ log[Len(log)].out.status = 127
    /\ pc = "failed"

(***************************************************************************)
(* C15 to C18: the environment variables of the template and their          *)
(* encoding.                                                                *)
(***************************************************************************)
\* Prepare has accepted the template
Accepted == pc \notin {"new", "invalid"}

\* a comes before b in byte order
ByteBefore(a, b) ==
    \E i \in 1..(Len(b)) :
        /\ \A j \in 1..(i - 1) : j <= Len(a) /\ a[j] = b[j]
        /\ \/ i = Len(a) + 1
           \/ i <= Len(a) /\ Ord(a[i]) < Ord(b[i])

\* the keys of a list of well-formed entries, and the value the last entry of a key gives it
KeysOf(envVars) == {KeyOf(envVars[i]) : i \in 1..Len(envVars)}
LastValueOf(envVars, k) ==
    LET last == CHOOSE i \in 1..Len(envVars) :
                    /\ KeyOf(envVars[i]) = k
                    /\ \A j \in (i + 1)..Len(envVars) : KeyOf(envVars[j]) # k
    IN  ValueOf(envVars[last])

\* the encoded string the apply commands of this provisioner start with
Encoded == createFlattenedEnvVars(config)

\* the text that stands for key k in the encoded string
PieceOf(k) == Sprintf(config.EnvVarFormat, <<k, escapeValue(LastValueOf(raws.EnvVars, k))>>)

\* C15: for every list of valid entries the keys appear in the encoded string in
\* non-decreasing byte order, whatever the order in which the entries are listed.
C15_KeysSorted ==
    Accepted =>
        \A k1, k2 \in KeysOf(raws.EnvVars) :
            ByteBefore(k1, k2) =>
                /\ Index(Encoded, PieceOf(k1)) > 0
                /\ Index(Encoded, PieceOf(k1)) < Index(Encoded, PieceOf(k2))

\* a run that applied salt with two entries listed in descending order of their keys
C15_Witness ==
    /\ pc = "done"
    /\ Len(raws.EnvVars) = 2
    /\ ByteBefore(KeyOf(raws.EnvVars[2]), KeyOf(raws.EnvVars[1]))
    /\ \E i \in 1..Len(log) : log[i].op = "apply" /\ HasPrefix(log[i].cmd, <<"s","u","d","o"," ">> \o Encoded)

\* the keys of a list in increasing byte order
SortedKeysOf(envVars) ==
    LET keys == KeysOf(envVars)
    IN  CHOOSE s \in [1..Cardinality(keys) -> keys] :
            \A i, j \in 1..Cardinality(keys) : i < j => ByteBefore(s[i], s[j])

\* a value with each single quote replaced by the five characters that close the
\* quotation, give a quoted single quote and open the quotation again
RECURSIVE QuoteEscaped(_)
QuoteEscaped(v) ==
    IF v = <<>> THEN <<>>
    ELSE (IF Head(v) = "'" THEN <<"'","\"","'","\"","'">> ELSE <<Head(v)>>) \o QuoteEscaped(Tail(v))

\* a format of two placeholders with a in the place of the first and b of the second
TwoPlaceholders(format, a, b) ==
    LET i == Index(format, <<"%","s">>)
        rest == SubSeq(format, i + 2, Len(format))
        j == Index(rest, <<"%","s">>)
    IN  SubSeq(format, 1, i - 1) \o a \o SubSeq(rest, 1, j - 1) \o b \o SubSeq(rest, j + 2, Len(rest))

\* the format the template configures: its environment_vars_format, and KEY='VALUE'
\* followed by one space when it has none
ConfiguredFormat == IF raws.EnvVarFormat # <<>> THEN raws.EnvVarFormat ELSE <<"%","s","=","'","%","s","'"," ">>

\* the concatenation over the keys s[from..] of the format applied to key and escaped value
RECURSIVE ConcatPieces(_, _, _, _)
ConcatPieces(s, from, envVars, format) ==
    IF from > Len(s) THEN <<>>
    ELSE TwoPlaceholders(format, s[from], QuoteEscaped(LastValueOf(envVars, s[from])))
         \o ConcatPieces(s, from + 1, envVars, format)

ExpectedEncoding(envVars, format) == ConcatPieces(SortedKeysOf(envVars), 1, envVars, format)

\* C16 as stated: the encoded string is the concatenation, over the keys in sorted
\* order, of the configured two-placeholder format applied to key and escaped value,
\* by default KEY='VALUE' followed by one space, and it is empty for an empty list.
C16_AsStated == Accepted => Encoded = ExpectedEncoding(raws.EnvVars, ConfiguredFormat)

(***************************************************************************)
(* C17                                                                      *)
(***************************************************************************)
\* the word a shell reads from a token: single quotes keep every character up to the
\* next single quote, double quotes every character up to the next double quote
RECURSIVE ShellWord(_, _)
ShellWord(token, mode) ==
    IF token = <<>> THEN <<>>
    ELSE LET c == Head(token)
             rest == Tail(token)
         IN  IF mode = "plain"
             THEN IF c = "'" THEN ShellWord(rest, "single")
                  ELSE IF c = "\"" THEN ShellWord(rest, "double")
                       ELSE <<c>> \o ShellWord(rest, "plain")
             ELSE IF (mode = "single" /\ c = "'") \/ (mode = "double" /\ c = "\"")
                  THEN ShellWord(rest, "plain")
                  ELSE <<c>> \o ShellWord(rest, mode)

\* the escape sequence as the documentation gives it
EscapeSequence == <<"'","\"","'","\"","'">>

\* the escaped value the provisioner holds for key k
EscapedValueOf(k) == escapedEnvVars(config.EnvVars)[k]

\* C17: escaping round-trips: for every value, with single quotes or with the escape
\* sequence already in it, the escaped value read back, by reversing the replacement
\* or by the quoting rules of a shell applied to the single-quoted token, is the
\* original value, and the escaped value has no single quote outside an occurrence of
\* the escape sequence.
C17_RoundTrip ==
    Accepted =>
        \A k \in KeysOf(raws.EnvVars) :
            LET v == LastValueOf(raws.EnvVars, k)
                x == EscapedValueOf(k)
            IN  /\ ReplaceAll(x, EscapeSequence, <<"'">>) = v
                /\ ShellWord(<<"'">> \o x \o <<"'">>, "plain") = v
                /\ "'" \notin Range(ReplaceAll(x, EscapeSequence, <<>>))

\* salt was applied with a value that already held the escape sequence
C17_Witness ==
    /\ pc = "done"
    /\ \E i \in 1..Len(raws.EnvVars) : HasSubstring(ValueOf(raws.EnvVars[i]), EscapeSequence)

(***************************************************************************)
(* C18                                                                      *)
(***************************************************************************)
\* the lists that hold the entries of envVars in some order
PermutationsOf(envVars) ==
    LET n == Len(envVars)
        bijections == {f \in [1..n -> 1..n] : \A i, j \in 1..n : f[i] = f[j] => i = j}
    IN  {[i \in 1..n |-> envVars[f[i]]] : f \in bijections}

\* the encoded string and the apply command of this provisioner had the template
\* listed its entries as envVars
EncodingOf(envVars) == createFlattenedEnvVars([config EXCEPT !.EnvVars = envVars])
CommandOf(envVars, stateFile) ==
    saltCommand([config EXCEPT !.EnvVars = envVars], EncodingOf(envVars), stateFile)

\* the state file the next apply command is for, empty in tree mode
NextStateFile == IF raws.StateFiles # <<>> THEN stateFiles[idx] ELSE <<>>

DistinctKeys == Cardinality(KeysOf(raws.EnvVars)) = Len(raws.EnvVars)

\* C18 as stated: any two lists of entries that are permutations of each other give
\* the identical encoded string.
C18_AsStated ==
    pc = "executeSaltState" => \A p \in PermutationsOf(raws.EnvVars) : EncodingOf(p) = Encoded

\* C18, amended: any two lists of entries with pairwise distinct keys that are
\* permutations of each other give the identical encoded string and therefore the
\* identical apply command, whenever executeSalt is about to encode them.
C18_Deterministic ==
    (pc = "executeSaltState" /\ DistinctKeys) =>
        \A p \in PermutationsOf(raws.EnvVars) :
            /\ EncodingOf(p) = Encoded
            /\ CommandOf(p, NextStateFile) = CommandOf(raws.EnvVars, NextStateFile)

\* salt is about to be applied with two entries of distinct keys, which have a second order
C18_Witness ==
    /\ pc = "executeSaltState"
    /\ Len(raws.EnvVars) = 2
    /\ DistinctKeys
    /\ PermutationsOf(raws.EnvVars) # {raws.EnvVars}
    /\ Encoded # <<>>

(***************************************************************************)
(* C19, C20                                                                 *)
(***************************************************************************)
IsRemoval(e) == e.op = "removeDir"

\* the directories removal commands were issued for so far, in order
RemovedDirs == LET r == SelectSeq(log, IsRemoval) IN [i \in 1..Len(r) |-> r[i].dst]

\* C19: with clean set and every apply succeeded Provision issues a removal of the
\* remote state directory and then one of the remote pillar directory, the second
\* whether or not the first failed; with clean not set it never issues a removal.
C19_Cleanup ==
    /\ ~raws.Clean => RemovedDirs = <<>>
    /\ (raws.Clean /\ pc = "removePillarDir") => RemovedDirs = <<config.StateDir>>
    /\ (raws.Clean /\ pc = "done") => RemovedDirs = <<config.StateDir, config.PillarDir>>
    /\ RemovedDirs # <<>> => pc \in {"removePillarDir", "done"}

\* a run with clean set whose removal of the state directory failed and was followed
\* by the removal of the pillar directory
C19_Witness ==
    /\ pc = "done"
    /\ raws.Clean
    /\ Len(RemovedDirs) = 2
    /\ ~Succeeded(SelectSeq(log, IsRemoval)[1].out)

\* C20: when every step up to and including the last apply command succeeded,
\* Provision returns no error, whatever the outcome, transport error or exit status,
\* of the removals.
C20_CleanupNonFatal ==
    /\ (pc \in {"done", "failed"} /\ "apply" \in Ops
            /\ \A i \in 1..Len(log) : ~FailedStep(log[i]))
          => pc = "done" /\ result = <<>>
    /\ "removeDir" \in Ops => pc # "failed" /\ result = <<>>

\* a run that returned with one removal failed in transport and the other ended with
\* a non-zero exit status
C20_Witness ==
    /\ pc = "done"
    /\ \E i \in 1..Len(log) : IsRemoval(log[i]) /\ log[i].out.transport
    /\ \E i \in 1..Len(log) : IsRemoval(log[i]) /\ ~log[i].out.transport /\ log[i].out.status # 0

(***************************************************************************)
(* C21                                                                      *)
(***************************************************************************)
\* a request that addresses the remote pillar directory: a command or transfer for
\* that directory or for a path below it, or an apply command with a pillar root
AddressesPillarDir(e) ==
    \/ /\ config.PillarDir # <<>>
       /\ e.dst = config.PillarDir \/ HasPrefix(e.dst, config.PillarDir \o <<"/">>)
    \/ e.pillar # <<>>
    \/ e.op = "apply" /\ HasSubstring(e.cmd, <<"-","-","p","i","l","l","a","r","-","r","o","o","t">>)

\* C21 as stated: with neither pillar_files nor pillar_tree set a run issues no
\* request that addresses the pillar directory, no creation, no transfer, no pillar
\* root and no removal, whatever clean is.
C21_AsStated ==
    PillarNeither => \A i \in 1..Len(log) : ~AddressesPillarDir(log[i])

\* C21, amended: with neither pillar_files nor pillar_tree set a run issues no
\* creation, no transfer and no pillar root for the pillar directory, whatever clean
\* is; the one request that addresses it is the removal of the clean-up, issued only
\* when clean is set.
C21_NoPillarCommands ==
    PillarNeither =>
        \A i \in 1..Len(log) :
            AddressesPillarDir(log[i]) => log[i].op = "removeDir" /\ raws.Clean

\* a finished run without pillar options and with clean set, which removed the
\* pillar directory after creating, filling and applying the state directory only
C21_Witness ==
    /\ pc = "done"
    /\ PillarNeither
    /\ raws.Clean
    /\ config.PillarDir # <<>>
    /\ \E i \in 1..Len(log) : log[i].op = "removeDir" /\ log[i].dst = config.PillarDir
    /\ {"createDir", "upload", "apply"} \subseteq Ops

(***************************************************************************)
(* C22                                                                      *)
(***************************************************************************)
\* C22 as stated: once the context of the caller is cancelled Provision issues no
\* further remote command or transfer, and the run ends in failure instead of going
\* on to its end.
C22_AsStated ==
    [][ctx = "cancelled" => (log' = log /\ pc' # "done")]_vars

(***************************************************************************)
(* C23                                                                      *)
(***************************************************************************)
\* pillar content is configured: discrete pillar files or a pillar tree
PillarConfigured == raws.PillarFiles # <<>> \/ raws.PillarTree # <<>>

\* the apply command e passes dir as the pillar root
PassesPillarRoot(e, dir) == HasSubstring(e.cmd, <<" ","-","-","p","i","l","l","a","r","-","r","o","o","t","=">> \o dir \o <<" ">>)

\* C23 as stated: in every run with pillar files or a pillar tree configured every
\* apply command passes the remote pillar directory as the pillar root, and the
\* template without a pillar root is used only when no pillar content is configured.
C23_AsStated ==
    \A i \in 1..Len(log) :
        log[i].op = "apply" =>
            /\ PillarConfigured => PassesPillarRoot(log[i], config.PillarDir)
            /\ ~PillarConfigured => ~HasSubstring(log[i].cmd, <<"-","-","p","i","l","l","a","r","-","r","o","o","t">>)

(***************************************************************************)
(* C24                                                                      *)
(***************************************************************************)
HasSuffix(s, suf) ==
    Len(s) >= Len(suf) /\ SubSeq(s, Len(s) - Len(suf) + 1, Len(s)) = suf

\* the path with one trailing ".sls" removed, and the path itself when it has none
TrimSuffixSls(path) ==
    IF HasSuffix(path, <<".","s","l","s">>) THEN SubSeq(path, 1, Len(path) - 4) ELSE path

\* C24 as stated: the state name the k-th apply command is given is the path of the
\* k-th state file with a trailing ".sls" removed and every other occurrence of
\* ".sls" preserved.
C24_AsStated ==
    LET a == SelectSeq(log, IsApply)
    IN  Len(config.StateFiles) # 0 =>
            \A k \in 1..Len(a) :
                /\ a[k].name = TrimSuffixSls(stateFiles[k])
                /\ HasSuffix(a[k].cmd, <<"s","t","a","t","e",".","a","p","p","l","y"," ">> \o TrimSuffixSls(stateFiles[k]))

(***************************************************************************)
(* C25                                                                      *)
(***************************************************************************)
HasBackslash(path) == \E i \in 1..Len(path) : path[i] = "\\"

\* C25 as stated: the remote file path of every transfer of uploadSingleFile, and the
\* remote directory created for it by the request before, contain no backslash,
\* whatever the local path and the remote base are.
C25_AsStated ==
    \A i \in 1..Len(log) :
        log[i].op = "upload" =>
            /\ ~HasBackslash(log[i].dst)
            /\ i > 1 /\ log[i - 1].op = "createDir" /\ ~HasBackslash(log[i - 1].dst)

(***************************************************************************)
(* C26                                                                      *)
(***************************************************************************)
\* the template of the profile in use for an operation, instantiated with a path
ProfileCommand(valueName, dir) == Sprintf(getCommand(config, valueName), <<dir>>)

\* C26 as stated: every create-directory and every remove-directory command is the
\* template of the resolved OS profile for that operation instantiated with the
\* path, so that no run on a windows target issues the linux mkdir or rm command.
C26_AsStated ==
    \A i \in 1..Len(log) :
        /\ log[i].op = "createDir" =>
              /\ log[i].cmd = ProfileCommand(<<"c","m","d","C","r","e","a","t","e","D","i","r">>, log[i].dst)
              /\ config.TargetOS = <<"w","i","n","d","o","w","s">> => ~HasPrefix(log[i].cmd, <<"m","k","d","i","r"," ">>)
        /\ log[i].op = "removeDir" =>
              /\ log[i].cmd = ProfileCommand(<<"c","m","d","D","e","l","e","t","e","D","i","r">>, log[i].dst)
              /\ config.TargetOS = <<"w","i","n","d","o","w","s">> => ~HasPrefix(log[i].cmd, <<"r","m"," ">>)

(***************************************************************************)
(* C27                                                                      *)
(***************************************************************************)
\* the run failed in a create-directory command that exited with the status n
CreateDirExited(n) ==
    /\ pc = "failed"
    /\ log # <<>>
    /\ log[Len(log)].op = "createDir"
    /\ ~log[Len(log)].out.transport
    /\ log[Len(log)].out.status = n

\* C27 as stated: a create-directory command that exits with status 127 yields a
\* "could not be found" error, any other non-zero status yields an error that is
\* not the "could not be found" error, and status 0 yields no error (a run that
\* fails after it failed in opening the local file).
C27_AsStated ==
    /\ CreateDirExited(127) => \E m \in Range(result) : HasSubstring(m, <<"c","o","u","l","d"," ","n","o","t"," ","b","e"," ","f","o","u","n","d">>)
    /\ \A n \in ExitStatuses \ {0, 127} :
          CreateDirExited(n) => \E m \in Range(result) : ~HasSubstring(m, <<"c","o","u","l","d"," ","n","o","t"," ","b","e"," ","f","o","u","n","d">>)
    /\ CreateDirExited(0) => \A m \in Range(result) : HasPrefix(m, <<"e","r","r","o","r"," ","o","p","e","n","i","n","g"," ","f","i","l","e"," ">>)

(***************************************************************************)
(* C28                                                                      *)
(***************************************************************************)
\* the remote parent directory of a remote path: the text before its last slash, and
\* the root itself ("/" or a drive with its slash) for a path right below a root
ParentOf(path) ==
    LET slashes == {i \in 1..Len(path) : path[i] = "/"}
        last    == CHOOSE i \in slashes : \A j \in slashes : j <= i
        before  == SubSeq(path, 1, last - 1)
    IN  IF slashes = {} THEN <<".">>
        ELSE IF before = <<>> \/ (Len(before) = 2 /\ before[2] = ":")
             THEN SubSeq(path, 1, last)
             ELSE before

\* the request before the i-th one is a successful creation of the directory dir
CreatedJustBefore(i, dir) ==
    /\ i > 1
    /\ log[i - 1].op = "createDir"
    /\ Succeeded(log[i - 1].out)
    /\ log[i - 1].dst = dir

\* C28: every transfer of a single file comes right after a successful creation of
\* the remote parent directory of the file, every transfer of a tree right after a
\* successful creation of its remote base, nothing is requested after a creation
\* that failed, and without a state tree the first request of the run is the
\* creation of the remote state directory.
C28_DirBeforeContent ==
    /\ \A i \in 1..Len(log) :
          /\ log[i].op = "upload" => CreatedJustBefore(i, ParentOf(log[i].dst))
          /\ log[i].op = "uploadDir" => CreatedJustBefore(i, log[i].dst)
          /\ (log[i].op = "createDir" /\ ~Succeeded(log[i].out)) => i = Len(log)
    /\ (config.StateTree = <<>> /\ log # <<>>) =>
          /\ log[1].op = "createDir"
          /\ log[1].dst = config.StateDir

\* a finished run that transferred a tree and a file of a subdirectory
C28_Witness ==
    /\ pc = "done"
    /\ \E i \in 1..Len(log) : log[i].op = "uploadDir"
    /\ \E i \in 1..Len(log) : log[i].op = "upload" /\ ParentOf(log[i].dst) # config.StateDir

(***************************************************************************)
(* C29                                                                      *)
(***************************************************************************)
\* the tree paths of the configuration
ConfiguredTrees == {config.StateTree, config.PillarTree} \ {<<>>}

EndsInSeparator(path) == path # <<>> /\ IsPathSeparator(path[Len(path)])

EndsInSlash(path) == path # <<>> /\ path[Len(path)] = "/"

\* C29 as stated: the source of every tree transfer ends in a path separator of the
\* host, it is the configured tree path itself when that path ends in a path
\* separator and the path with a separator appended when it does not, and
\* normalizing it once more changes nothing.
C29_AsStated ==
    \A i \in 1..Len(log) :
        log[i].op = "uploadDir" =>
            /\ EndsInSeparator(log[i].src)
            /\ \E tree \in ConfiguredTrees :
                  IF EndsInSeparator(tree)
                  THEN log[i].src = tree
                  ELSE \E c \in {"/", "\\"} : IsPathSeparator(c) /\ log[i].src = tree \o <<c>>
            /\ uploadDirSource(log[i].src) = log[i].src

\* C29 for the forward slash: the source of every tree transfer ends in a forward
\* slash, it is the configured tree path itself when that path ends in a forward
\* slash and the path with a forward slash appended when it does not, and
\* normalizing it once more changes nothing.
C29_TrailingSlash ==
    \A i \in 1..Len(log) :
        log[i].op = "uploadDir" =>
            /\ EndsInSlash(log[i].src)
            /\ \E tree \in ConfiguredTrees :
                  log[i].src = IF EndsInSlash(tree) THEN tree ELSE tree \o <<"/">>
            /\ uploadDirSource(log[i].src) = log[i].src

\* a finished run that transferred a tree whose path had no trailing slash and a tree
\* whose path had one
C29_Witness ==
    /\ pc = "done"
    /\ \E i \in 1..Len(log) :
          log[i].op = "uploadDir" /\ ~EndsInSlash(config.StateTree)
              /\ log[i].src = config.StateTree \o <<"/">>
    /\ \E i \in 1..Len(log) :
          log[i].op = "uploadDir" /\ EndsInSlash(config.PillarTree)
              /\ log[i].src = config.PillarTree

(***************************************************************************)
(* C30                                                                      *)
(***************************************************************************)
\* the local files of the configuration, as given and as absolute paths
LocalPaths ==
    LET given == Range(stateFiles) \cup Range(pillarFiles)
    IN  given \cup {Abs(f) : f \in given}

\* the run failed in a request of uploadSingleFile: the transfer of a file, or the
\* creation of a directory that is not the first creation of a base directory
FailedInFileUpload ==
    /\ pc = "failed"
    /\ log # <<>>
    /\ ~Succeeded(log[Len(log)].out)
    /\ \/ log[Len(log)].op = "upload"
       \/ /\ log[Len(log)].op = "createDir"
          /\ \A m \in Range(result) :
                /\ ~HasPrefix(m, <<"e","r","r","o","r"," ","c","r","e","a","t","i","n","g"," ","s","t","a","t","e"," ","d","i","r","e","c","t","o","r","y">>)
                /\ ~HasPrefix(m, <<"e","r","r","o","r"," ","c","r","e","a","t","i","n","g"," ","p","i","l","l","a","r"," ","d","i","r","e","c","t","o","r","y">>)
                /\ ~HasPrefix(m, <<"e","r","r","o","r"," ","u","p","l","o","a","d","i","n","g"," ","s","t","a","t","e","_","t","r","e","e">>)
                /\ ~HasPrefix(m, <<"e","r","r","o","r"," ","u","p","l","o","a","d","i","n","g"," ","p","i","l","l","a","r","_","t","r","e","e">>)

\* C30 as stated: when the creation of the directory or the transfer for a discrete
\* file fails, the error Provision returns contains the local path of a configured
\* file.
C30_AsStated ==
    FailedInFileUpload =>
        /\ result # <<>>
        /\ \A m \in Range(result) : \E f \in LocalPaths : HasSubstring(m, f)

(***************************************************************************)
(* C31                                                                      *)
(***************************************************************************)
\* a message that tells of a failure
TellsFailure(m) ==
    \/ HasSubstring(m, <<"r","r","o","r">>)
    \/ HasSubstring(m, <<"a","i","l">>)
    \/ HasSubstring(m, <<"n","o","n","-","z","e","r","o">>)
    \/ HasSubstring(m, <<"c","o","u","l","d"," ","n","o","t">>)
    \/ HasSubstring(m, <<"u","n","a","b","l","e">>)

\* a removal of the clean-up failed in the run
RemovalFailed == \E i \in 1..Len(log) : log[i].op = "removeDir" /\ ~Succeeded(log[i].out)

\* C31 as stated: when a removal of the clean-up failed, the finished run has told of
\* the failure on the ui or in the returned error, and its result is still success.
C31_AsStated ==
    (pc = "done" /\ RemovalFailed) =>
        /\ \E m \in Range(ui) \cup Range(result) : TellsFailure(m)
        /\ result = <<>>

(***************************************************************************)
(* C32                                                                      *)
(***************************************************************************)
\* C32: no step of Provision, whatever its outcome, changes the configuration or the
\* validated state and pillar file lists; they change only in the steps that end in
\* Prepare having returned.
C32_ReadOnly ==
    [][pc' \notin {"new", "prepared", "invalid"} =>
          /\ config' = config
          /\ stateFiles' = stateFiles
          /\ pillarFiles' = pillarFiles]_vars

\* a run of Provision over files, a pillar tree and environment variables that has
\* cleaned up and returned
C32_Witness ==
    /\ pc = "done"
    /\ config.Clean
    /\ stateFiles # <<>>
    /\ config.PillarTree # <<>>
    /\ config.EnvVars # <<>>
    /\ Len(log) >= 7

(***************************************************************************)
(* C33                                                                      *)
(***************************************************************************)
\* Provision has been called and has not returned
Running == pc \notin {"new", "prepared", "invalid", "done", "failed"}

Ended == pc \in {"done", "failed"}

\* the positions of a run of Provision, and the positions in a file list
Positions ==
    {"uploadStateTree.createDir", "uploadStateTree.UploadDir", "createStateDir",
     "uploadPillarTree.createDir", "uploadPillarTree.UploadDir", "createPillarDir",
     "uploadStateFile.createDir", "uploadStateFile.Upload",
     "uploadPillarFile.createDir", "uploadPillarFile.Upload",
     "executeSaltState", "removeStateDir", "removePillarDir", "done", "failed"}

Indexes == 1..(MaxPrepare * MaxFiles + 1)

\* the remote command or the transfer the run waits for returns, and Provision goes
\* on to its next position
Returns == Running /\ pc' \in Positions /\ idx' \in Indexes

\* every remote command and every transfer returns
FairSpec == Spec /\ WF_<<pc, idx>>(Returns)

\* the number of remote commands and transfers of a run that goes to its end: two for
\* each tree and for each file in the lists Provision goes through, one for each base
\* directory of files, one apply for each state file or one for the tree, and the
\* two removals of the clean-up
RequestBound ==
    (IF config.StateTree # <<>> THEN 2 ELSE 1)
        + (IF config.PillarTree # <<>> THEN 2 ELSE 0)
        + (IF Len(pillarFiles) > 0 THEN 1 ELSE 0)
        + 2 * Len(stateFiles) + 2 * Len(pillarFiles)
        + (IF Len(config.StateFiles) # 0 THEN Len(stateFiles) ELSE 1)
        + (IF config.Clean THEN 2 ELSE 0)

C34_AsStated ==
    (pc = "prepared" /\ errs = <<>>) =>
        /\ stateFiles = config.StateFiles
        /\ pillarFiles = config.PillarFiles

(***************************************************************************)
(* C35                                                                      *)
(***************************************************************************)
\* C35 as stated: after any number of calls of Prepare the validated file lists are
\* what one call produces from the configuration, and the run that follows applies
\* no more states and transfers no more files than are configured.
C35_AsStated ==
    prepares >= 1 /\ ~raws.undecodable =>
        /\ stateFiles = ValidFiles(config.StateFiles, <<"s","t","a","t","e","_","f","i","l","e","s">>)
        /\ pillarFiles = ValidFiles(config.PillarFiles, <<"p","i","l","l","a","r","_","f","i","l","e","s">>)
        /\ Len(SelectSeq(log, IsUpload)) <= Len(config.StateFiles) + Len(config.PillarFiles)
        /\ Len(SelectSeq(log, IsApply)) <= IF config.StateFiles = <<>> THEN 1 ELSE Len(config.StateFiles)

(***************************************************************************)
(* C36                                                                      *)
(***************************************************************************)
\* the positions of the text s at which sub occurs
OccurrencesOf(s, sub) == {i \in 1..Len(s) : MatchAt(s, i, sub)}

\* the text the configured format makes of the key and the value of an entry
TokenOf(e) == Sprintf(config.EnvVarFormat, <<KeyOf(e), escapeValue(ValueOf(e))>>)

\* the positions of the encoded string at which the token of some key starts
TokenStarts ==
    UNION {OccurrencesOf(Encoded, PieceOf(k)) : k \in KeysOf(raws.EnvVars)}

RepeatedKey ==
    \E i, j \in 1..Len(raws.EnvVars) : i < j /\ KeyOf(raws.EnvVars[i]) = KeyOf(raws.EnvVars[j])

\* C36: in the encoded string every key stands exactly once, with the escaped value of
\* its last entry in list order; the token of an earlier entry with another value
\* does not occur, and there are as many tokens as distinct keys.
C36_LastEntryWins ==
    pc = "executeSaltState" =>
        /\ \A k \in KeysOf(raws.EnvVars) : Cardinality(OccurrencesOf(Encoded, PieceOf(k))) = 1
        /\ \A i \in 1..Len(raws.EnvVars) :
              TokenOf(raws.EnvVars[i]) # PieceOf(KeyOf(raws.EnvVars[i])) =>
                  OccurrencesOf(Encoded, TokenOf(raws.EnvVars[i])) = {}
        /\ Cardinality(TokenStarts) = Cardinality(KeysOf(raws.EnvVars))
        /\ Cardinality(DOMAIN escapedEnvVars(config.EnvVars)) = Cardinality(KeysOf(raws.EnvVars))

\* salt is about to be applied with a key listed twice with two values
C36_Witness ==
    /\ pc = "executeSaltState"
    /\ RepeatedKey
    /\ \E i \in 1..Len(raws.EnvVars) : TokenOf(raws.EnvVars[i]) # PieceOf(KeyOf(raws.EnvVars[i]))
    /\ Encoded # <<>>

(***************************************************************************)
(* C37                                                                      *)
(***************************************************************************)
\* a remote path with each backslash read as a slash
Slashed(path) == [i \in 1..Len(path) |-> IF path[i] = "\\" THEN "/" ELSE path[i]]

\* the remote path is the directory dir or lies below it, whichever of the two
\* separators each of them is written with
InsideDir(path, dir) ==
    \/ Slashed(path) = Slashed(dir)
    \/ HasPrefix(Slashed(path), Slashed(dir) \o <<"/">>)

\* C37 as stated: the remote destination of every transfer of a file, and the remote
\* directory created for it by the request before, lie inside the remote state
\* directory or the remote pillar directory.
C37_AsStated ==
    \A i \in 1..Len(log) :
        log[i].op = "upload" =>
            \E base \in {config.StateDir, config.PillarDir} :
                /\ InsideDir(log[i].dst, base)
                /\ i > 1 /\ InsideDir(log[i - 1].dst, base)

(***************************************************************************)
(* C38                                                                      *)
(***************************************************************************)
\* the elements of a remote path between its slashes, empty ones dropped
RECURSIVE SlashElements(_)
SlashElements(path) ==
    LET seps == {i \in 1..Len(path) : path[i] = "/"}
        i    == IF seps = {} THEN 0 ELSE CHOOSE k \in seps : \A j \in seps : k <= j
    IN  IF path = <<>> THEN <<>>
        ELSE IF i = 0 THEN <<path>>
             ELSE (IF i = 1 THEN <<>> ELSE <<SubSeq(path, 1, i - 1)>>)
                  \o SlashElements(SubSeq(path, i + 1, Len(path)))

RECURSIVE SlashJoined(_)
SlashJoined(elems) ==
    IF elems = <<>> THEN <<>>
    ELSE Head(elems) \o (IF Len(elems) > 1 THEN <<"/">> ELSE <<>>) \o SlashJoined(Tail(elems))

\* the remote path of rel under the directory root, both read with slashes
RemoteJoin(root, rel) ==
    LET path   == Slashed(root) \o <<"/">> \o Slashed(rel)
        rooted == path[1] = "/"
    IN  (IF rooted THEN <<"/">> ELSE <<>>)
            \o SlashJoined(CleanElements(SlashElements(path), <<>>, rooted))

\* C38 as stated: for the k-th state file, the state name of its apply command with
\* ".sls" appended, joined under the file root of that command, is the remote path
\* the file was transferred to.
C38_AsStated ==
    LET a == SelectSeq(log, IsApply)
        u == SelectSeq(log, IsUpload)
    IN  Len(config.StateFiles) # 0 =>
            \A k \in 1..Len(a) :
                Slashed(u[k].dst) = RemoteJoin(a[k].dst, a[k].name \o <<".","s","l","s">>)

(***************************************************************************)
(* C39                                                                      *)
(***************************************************************************)
\* the configuration Prepare would make of the same template without staging_directory
WithoutStaging == SetDefaults(Decode(ZeroConfig, [raws EXCEPT !.StagingDir = <<>>]))

\* C39 as stated: after Prepare the remote state directory is state_directory when it
\* is set, whatever staging_directory is, else staging_directory when that is set,
\* else the default of the OS profile target_os resolves to; and the remote pillar
\* directory is what it is without staging_directory.
C39_AsStated ==
    Returned =>
        /\ raws.StateDir # <<>> => config.StateDir = raws.StateDir
        /\ (raws.StateDir = <<>> /\ raws.StagingDir # <<>>) => config.StateDir = raws.StagingDir
        /\ (raws.StateDir = <<>> /\ raws.StagingDir = <<>>) =>
              config.StateDir = ExpectedProfile(raws.TargetOS).stateDir
        /\ config.PillarDir = WithoutStaging.PillarDir
        /\ config.StagingDir = raws.StagingDir



====
